---- MODULE Spec2Model ----
(***************************************************************************)
(* Model of the retrieval-and-answer pipeline of the insurance policy      *)
(* query service: the request handlers of api_routes.py, the Groq LLM      *)
(* service with its deterministic fallbacks, the Pinecone-backed embedding *)
(* service, the document parser and the performance monitor.               *)
(*                                                                         *)
(* Python strings are sequences of one-character strings.  Python values   *)
(* whose type is decided at run time (the result of json.loads) are        *)
(* records [t |-> type tag, v |-> value].                                  *)
(***************************************************************************)
EXTENDS Integers, Sequences, FiniteSets, TLC

(***************************************************************************)
(* Python string operations                                                *)
(***************************************************************************)
Min(a, b) == IF a <= b THEN a ELSE b

IsSpace(c) == c \in {" ", "\n", "\t"}

Uppers == <<"A","B","C","D","E","F","G","H","I","J","K","L","M","N","O","P","Q","R","S","T","U","V","W","X","Y","Z">>

Lowers == <<"a","b","c","d","e","f","g","h","i","j","k","l","m","n","o","p","q","r","s","t","u","v","w","x","y","z">>

LowerChar(c) ==
    IF \E i \in DOMAIN Uppers : Uppers[i] = c
    THEN Lowers[CHOOSE i \in DOMAIN Uppers : Uppers[i] = c]
    ELSE c

\* str.lower()
Lower(s) == [i \in 1..Len(s) |-> LowerChar(s[i])]

\* s[:n]
Take(s, n) == SubSeq(s, 1, Min(n, Len(s)))

\* s[n:]
Drop(s, n) == SubSeq(s, n + 1, Len(s))

\* str.lstrip()
LStrip(s) ==
    IF \A i \in 1..Len(s) : IsSpace(s[i]) THEN <<>>
    ELSE Drop(s, (CHOOSE i \in 1..Len(s) :
                    ~IsSpace(s[i]) /\ \A j \in 1..(i - 1) : IsSpace(s[j])) - 1)

\* str.rstrip()
RStrip(s) ==
    IF \A i \in 1..Len(s) : IsSpace(s[i]) THEN <<>>
    ELSE Take(s, CHOOSE i \in 1..Len(s) :
                    ~IsSpace(s[i]) /\ \A j \in (i + 1)..Len(s) : IsSpace(s[j]))

\* str.strip()
Strip(s) == LStrip(RStrip(s))

\* sub in s
Contains(s, sub) ==
    \E i \in 0..(Len(s) - Len(sub)) : SubSeq(s, i + 1, i + Len(sub)) = sub

\* s.endswith(suffix)
EndsWith(s, suffix) ==
    /\ Len(suffix) <= Len(s)
    /\ SubSeq(s, Len(s) - Len(suffix) + 1, Len(s)) = suffix

\* s.split(sep) for a one-character separator: empty pieces are kept
RECURSIVE SplitOn(_, _)
SplitOn(s, sep) ==
    IF \A i \in 1..Len(s) : s[i] # sep THEN <<s>>
    ELSE LET k == CHOOSE i \in 1..Len(s) :
                    s[i] = sep /\ \A j \in 1..(i - 1) : s[j] # sep
         IN  <<Take(s, k - 1)>> \o SplitOn(Drop(s, k), sep)

\* s.split(): runs of whitespace separate, empty pieces are dropped
RECURSIVE SplitWS(_)
SplitWS(s) ==
    LET t == LStrip(s)
    IN  IF t = <<>> THEN <<>>
        ELSE IF \A i \in 1..Len(t) : ~IsSpace(t[i]) THEN <<t>>
        ELSE LET k == CHOOSE i \in 1..Len(t) :
                        IsSpace(t[i]) /\ \A j \in 1..(i - 1) : ~IsSpace(t[j])
             IN  <<Take(t, k - 1)>> \o SplitWS(Drop(t, k))

\* sep.join(parts)
RECURSIVE Join(_, _)
Join(sep, parts) ==
    IF parts = <<>> THEN <<>>
    ELSE IF Len(parts) = 1 THEN parts[1]
    ELSE parts[1] \o sep \o Join(sep, Tail(parts))

Range(f) == {f[i] : i \in DOMAIN f}

(***************************************************************************)
(* Python values: the dynamically typed results of json.loads and of the   *)
(* fallbacks of GroqService                                                *)
(***************************************************************************)
PyStr(s) == [t |-> "str", v |-> s]

PyInt(n) == [t |-> "int", v |-> n]

\* a float, kept as the fraction n/d that produced it
PyFloat(n, d) == [t |-> "float", v |-> <<n, d>>]

PyList(xs) == [t |-> "list", v |-> xs]

\* a dict: v is a function from its keys to Python values
PyDict(f) == [t |-> "dict", v |-> f]

PyNone == [t |-> "none", v |-> <<>>]

Digits == <<"0","1","2","3","4","5","6","7","8","9">>

\* str(n) as an f-string formats a non-negative int
RECURSIVE IntToStr(_)
IntToStr(n) ==
    IF n < 10 THEN <<Digits[n + 1]>>
    ELSE IntToStr(n \div 10) \o <<Digits[(n % 10) + 1]>>

(***************************************************************************)
(* String constants of the source                                          *)
(***************************************************************************)
\* the fixed no-information sentence (api_routes.py:122, groq_service.py:263)
NoInfoInDocument == <<"N","o"," ","r","e","l","e","v","a","n","t"," ","i","n","f","o","r","m","a","t","i","o","n"," ","f","o","u","n","d"," ","i","n"," ","t","h","e"," ","d","o","c","u","m","e","n","t",".">>

Ellipsis == <<".",".",".">>

NoRelevantInfo == <<"N","o"," ","r","e","l","e","v","a","n","t"," ","i","n","f","o","r","m","a","t","i","o","n"," ","f","o","u","n","d">>

NoKeywordsExplanation == <<"C","l","a","u","s","e"," ","d","o","e","s","n","'","t"," ","c","o","n","t","a","i","n"," ","r","e","l","e","v","a","n","t"," ","k","e","y","w","o","r","d","s">>

ClauseContains == <<"C","l","a","u","s","e"," ","c","o","n","t","a","i","n","s"," ">>

RelevantKeywords == <<" ","r","e","l","e","v","a","n","t"," ","k","e","y","w","o","r","d","s">>

SingleNoInfoAnswer == <<"N","o"," ","r","e","l","e","v","a","n","t"," ","i","n","f","o","r","m","a","t","i","o","n"," ","f","o","u","n","d",".">>

SingleNoInfoExplanation == <<"T","h","e"," ","d","o","c","u","m","e","n","t"," ","d","o","e","s"," ","n","o","t"," ","c","o","n","t","a","i","n"," ","i","n","f","o","r","m","a","t","i","o","n"," ","r","e","l","a","t","e","d"," ","t","o"," ","t","h","i","s"," ","q","u","e","r","y",".">>

SingleNoAnswer == <<"N","o"," ","s","p","e","c","i","f","i","c"," ","a","n","s","w","e","r"," ","f","o","u","n","d",".">>

SingleNoAnswerExplanation == <<"D","o","c","u","m","e","n","t"," ","c","o","n","t","a","i","n","s"," ","s","o","m","e"," ","r","e","l","e","v","a","n","t"," ","i","n","f","o","r","m","a","t","i","o","n"," ","b","u","t"," ","n","o"," ","d","i","r","e","c","t"," ","a","n","s","w","e","r",".">>

DefaultDirectAnswer == <<"R","e","l","e","v","a","n","t"," ","i","n","f","o","r","m","a","t","i","o","n"," ","f","o","u","n","d",".">>

DefaultExplanation == <<"C","l","a","u","s","e"," ","c","o","n","t","a","i","n","s"," ","r","e","l","e","v","a","n","t"," ","i","n","f","o","r","m","a","t","i","o","n",".">>

Yes == <<"y","e","s">>

No == <<"n","o">>


\* clause[:200] of _fallback_evaluate_clause
DirectAnswerLimit == 200

\* relevant_sentences[:3] of _fallback_generate_answer
MaxSentences == 3

\* combined_text[:500] of _fallback_generate_answer
AnswerLimit == 500

(***************************************************************************)
(* GroqService: deterministic fallbacks (groq_service.py)                  *)
(***************************************************************************)
\* the keyword vocabulary of _fallback_parse_query, in the order of its
\* if-statements: the keyword appended and the substrings that trigger it
Vocabulary == <<
    [keyword |-> <<"g","r","a","c","e"," ","p","e","r","i","o","d">>,
     triggers |-> {<<"g","r","a","c","e"," ","p","e","r","i","o","d">>}],
    [keyword |-> <<"w","a","i","t","i","n","g"," ","p","e","r","i","o","d">>,
     triggers |-> {<<"w","a","i","t","i","n","g"," ","p","e","r","i","o","d">>}],
    [keyword |-> <<"p","r","e","m","i","u","m">>,
     triggers |-> {<<"p","r","e","m","i","u","m">>}],
    [keyword |-> <<"c","o","v","e","r","a","g","e">>,
     triggers |-> {<<"c","o","v","e","r","a","g","e">>}],
    [keyword |-> <<"h","o","s","p","i","t","a","l">>,
     triggers |-> {<<"h","o","s","p","i","t","a","l">>}],
    [keyword |-> <<"m","a","t","e","r","n","i","t","y">>,
     triggers |-> {<<"m","a","t","e","r","n","i","t","y">>}],
    [keyword |-> <<"c","l","a","i","m">>,
     triggers |-> {<<"c","l","a","i","m">>}],
    [keyword |-> <<"n","c","d">>,
     triggers |-> {<<"n","c","d">>, <<"n","o"," ","c","l","a","i","m"," ","d","i","s","c","o","u","n","t">>}],
    [keyword |-> <<"d","e","d","u","c","t","i","b","l","e">>,
     triggers |-> {<<"d","e","d","u","c","t","i","b","l","e">>}],
    [keyword |-> <<"e","x","c","l","u","s","i","o","n">>,
     triggers |-> {<<"e","x","c","l","u","s","i","o","n">>}],
    [keyword |-> <<"b","e","n","e","f","i","t">>,
     triggers |-> {<<"b","e","n","e","f","i","t">>}],
    [keyword |-> <<"p","o","l","i","c","y">>,
     triggers |-> {<<"p","o","l","i","c","y">>}],
    [keyword |-> <<"t","e","r","m">>,
     triggers |-> {<<"t","e","r","m">>}],
    [keyword |-> <<"r","e","n","e","w","a","l">>,
     triggers |-> {<<"r","e","n","e","w","a","l">>}],
    [keyword |-> <<"c","a","n","c","e","l","l","a","t","i","o","n">>,
     triggers |-> {<<"c","a","n","c","e","l","l","a","t","i","o","n">>}]
>>
IntentGroups == <<
    [intent |-> <<"f","i","n","d","_","p","e","r","i","o","d">>,
     words |-> {<<"g","r","a","c","e">>, <<"w","a","i","t","i","n","g">>}],
    [intent |-> <<"f","i","n","d","_","p","a","y","m","e","n","t","_","i","n","f","o">>,
     words |-> {<<"p","r","e","m","i","u","m">>, <<"p","a","y","m","e","n","t">>}],
    [intent |-> <<"f","i","n","d","_","c","o","v","e","r","a","g","e">>,
     words |-> {<<"c","o","v","e","r","a","g","e">>, <<"b","e","n","e","f","i","t">>}],
    [intent |-> <<"f","i","n","d","_","c","l","a","i","m","_","i","n","f","o">>,
     words |-> {<<"c","l","a","i","m">>, <<"n","c","d">>}]
>>
GeneralQuery == <<"g","e","n","e","r","a","l","_","q","u","e","r","y">>

\* the fallback parser with the last group that matches taken for the intent
FallbackParseQueryLastGroup(query) ==
    LET query_lower == Lower(query)
        Hit(e) == \E tr \in e.triggers : Contains(query_lower, tr)
        matched == SelectSeq(Vocabulary, Hit)
        keywords == [i \in 1..Len(matched) |-> PyStr(matched[i].keyword)]
        InGroup(g) == \E word \in g.words : Contains(query_lower, word)
        groups == SelectSeq(IntentGroups, InGroup)
        intent == IF groups = <<>> THEN GeneralQuery ELSE groups[Len(groups)].intent
    IN  PyDict([intent |-> PyStr(intent),
                entities |-> PyList(keywords),
                conditions |-> PyList(<<>>)])

\* GroqService._fallback_parse_query
FallbackParseQuery(query) ==
    LET query_lower == Lower(query)
        Hit(e) == \E tr \in e.triggers : Contains(query_lower, tr)
        matched == SelectSeq(Vocabulary, Hit)
        keywords == [i \in 1..Len(matched) |-> PyStr(matched[i].keyword)]
        InGroup(g) == \E word \in g.words : Contains(query_lower, word)
        groups == SelectSeq(IntentGroups, InGroup)
        intent == IF groups = <<>> THEN GeneralQuery ELSE groups[1].intent
    IN  PyDict([intent |-> PyStr(intent),
                entities |-> PyList(keywords),
                conditions |-> PyList(<<>>)])

\* the fallback evaluation counting the words of the query one by one, a
\* repeated word as often as it stands
FallbackEvaluateClauseRepeated(query, clause) ==
    LET words == SplitWS(Lower(query))
        clause_words == Range(SplitWS(Lower(clause)))
        overlap == Cardinality({i \in DOMAIN words : words[i] \in clause_words})
        total_query_words == Len(words)
        confidence == IF total_query_words = 0 THEN <<0, 1>>
                      ELSE <<overlap, total_query_words>>
        yes == 10 * confidence[1] > 3 * confidence[2]
    IN  PyDict([answer |-> PyStr(IF yes THEN Yes ELSE No),
                direct_answer |->
                    PyStr(IF yes
                          THEN (IF Len(clause) > DirectAnswerLimit
                                THEN Take(clause, DirectAnswerLimit) \o Ellipsis
                                ELSE clause)
                          ELSE NoRelevantInfo),
                explanation |->
                    PyStr(IF yes
                          THEN ClauseContains \o IntToStr(overlap) \o RelevantKeywords
                          ELSE NoKeywordsExplanation),
                confidence |-> PyFloat(confidence[1], confidence[2])])

\* GroqService._fallback_evaluate_clause
FallbackEvaluateClause(query, clause) ==
    LET query_words == Range(SplitWS(Lower(query)))
        clause_words == Range(SplitWS(Lower(clause)))
        overlap == Cardinality(query_words \cap clause_words)
        total_query_words == Cardinality(query_words)
        confidence == IF total_query_words = 0 THEN <<0, 1>>
                      ELSE IF overlap > total_query_words THEN <<1, 1>>
                      ELSE <<overlap, total_query_words>>
        \* confidence > 0.3
        yes == 10 * confidence[1] > 3 * confidence[2]
    IN  PyDict([answer |-> PyStr(IF yes THEN Yes ELSE No),
                direct_answer |->
                    PyStr(IF yes
                          THEN (IF Len(clause) > DirectAnswerLimit
                                THEN Take(clause, DirectAnswerLimit) \o Ellipsis
                                ELSE clause)
                          ELSE NoRelevantInfo),
                explanation |->
                    PyStr(IF yes
                          THEN ClauseContains \o IntToStr(overlap) \o RelevantKeywords
                          ELSE NoKeywordsExplanation),
                confidence |-> PyFloat(confidence[1], confidence[2])])

\* _fallback_generate_answer without the limit on the sentences joined
FallbackGenerateAnswerUnlimited(query, relevant_texts) ==
    IF relevant_texts = <<>> THEN NoInfoInDocument
    ELSE
    LET combined_text == Join(<<" ">>, relevant_texts)
        query_words == SplitWS(Lower(query))
        sentences == SplitOn(combined_text, ".")
        Relevant(sentence) ==
            \E i \in DOMAIN query_words : Contains(Lower(sentence), query_words[i])
        matching == SelectSeq(sentences, Relevant)
        relevant_sentences == [i \in 1..Len(matching) |-> Strip(matching[i])]
        joined == Join(<<".", " ">>, relevant_sentences)
    IN  IF relevant_sentences # <<>>
        THEN (IF EndsWith(joined, <<".">>) THEN joined ELSE joined \o <<".">>)
        ELSE (IF Len(combined_text) > AnswerLimit
              THEN Take(combined_text, AnswerLimit) \o Ellipsis
              ELSE combined_text)

\* GroqService._fallback_generate_answer
FallbackGenerateAnswer(query, relevant_texts) ==
    IF relevant_texts = <<>> THEN NoInfoInDocument
    ELSE
    LET combined_text == Join(<<" ">>, relevant_texts)
        query_words == SplitWS(Lower(query))
        sentences == SplitOn(combined_text, ".")
        Relevant(sentence) ==
            \E i \in DOMAIN query_words : Contains(Lower(sentence), query_words[i])
        matching == SelectSeq(sentences, Relevant)
        relevant_sentences == [i \in 1..Len(matching) |-> Strip(matching[i])]
        joined == Join(<<".", " ">>, Take(relevant_sentences, MaxSentences))
    IN  IF relevant_sentences # <<>>
        THEN (IF EndsWith(joined, <<".">>) THEN joined ELSE joined \o <<".">>)
        ELSE (IF Len(combined_text) > AnswerLimit
              THEN Take(combined_text, AnswerLimit) \o Ellipsis
              ELSE combined_text)

(***************************************************************************)
(* The LLM backend (groq client) and json.loads                            *)
(***************************************************************************)
\* completions the LLM may return: plain text, a JSON array, and a JSON
\* object of the shape evaluate_clause asks for (with surrounding blanks)
ReplyText == <<" ","3","0"," ","d","a","y","s"," ","\n">>

ReplyList == <<"[","]">>

ReplyEval == <<" ","{","\"","a","n","s","w","e","r","\"",":"," ","\"","y","e","s","\"",","," ","\"","d","i","r","e","c","t","_","a","n","s","w","e","r","\"",":"," ","\"","3","0"," ","d","a","y","s","\"",","," ","\"","e","x","p","l","a","n","a","t","i","o","n","\"",":"," ","\"","o","k","\"",","," ","\"","c","o","n","f","i","d","e","n","c","e","\"",":"," ","0",".","9","}","\n">>

LLMReplies == {ReplyText, ReplyList, ReplyEval}

\* client.chat.completions.create either raises (timeout, non-200 status)
\* or returns a completion
LLMOutcomes ==
    {[raised |-> TRUE, content |-> <<>>]} \cup
    {[raised |-> FALSE, content |-> c] : c \in LLMReplies}

\* json.loads on the completions above: the value, or a failure to parse
JsonLoads(content) ==
    IF content = Strip(ReplyList) THEN [ok |-> TRUE, val |-> PyList(<<>>)]
    ELSE IF content = Strip(ReplyEval)
    THEN [ok |-> TRUE,
          val |-> PyDict([answer |-> PyStr(Yes),
                          direct_answer |-> PyStr(<<"3","0"," ","d","a","y","s">>),
                          explanation |-> PyStr(<<"o","k">>),
                          confidence |-> PyFloat(9, 10)])]
    ELSE [ok |-> FALSE, val |-> PyNone]

\* the outcome of a call: a returned value or a raised exception
Returned(v) == [exc |-> FALSE, val |-> v]

Raised == [exc |-> TRUE, val |-> <<>>]

(***************************************************************************)
(* GroqService operations: client is TRUE when self.client is set, llm is  *)
(* what the backend does if it is called                                   *)
(***************************************************************************)
\* GroqService.parse_query
ParseQuery(client, llm, query) ==
    IF ~client THEN Returned(FallbackParseQuery(query))
    ELSE IF llm.raised THEN Returned(FallbackParseQuery(query))
    ELSE LET result == JsonLoads(Strip(llm.content))
         IN  IF result.ok THEN Returned(result.val)
             ELSE Returned(FallbackParseQuery(query))

\* evaluate_clause with json.loads outside the try block
EvaluateClauseUnguarded(client, llm, query, clause) ==
    IF ~client THEN Returned(FallbackEvaluateClause(query, clause))
    ELSE IF llm.raised THEN Returned(FallbackEvaluateClause(query, clause))
    ELSE LET result == JsonLoads(Strip(llm.content))
         IN  IF result.ok THEN Returned(result.val) ELSE Raised

\* GroqService.evaluate_clause
EvaluateClause(client, llm, query, clause) ==
    IF ~client THEN Returned(FallbackEvaluateClause(query, clause))
    ELSE IF llm.raised THEN Returned(FallbackEvaluateClause(query, clause))
    ELSE LET result == JsonLoads(Strip(llm.content))
         IN  IF result.ok THEN Returned(result.val)
             ELSE Returned(FallbackEvaluateClause(query, clause))

\* GroqService.generate_detailed_answer
GenerateDetailedAnswer(client, llm, query, relevant_texts) ==
    IF ~client THEN Returned(FallbackGenerateAnswer(query, relevant_texts))
    ELSE IF llm.raised THEN Returned(FallbackGenerateAnswer(query, relevant_texts))
    ELSE Returned(Strip(llm.content))

(***************************************************************************)
(* DocumentParser (document_parser.py)                                     *)
(***************************************************************************)
\* DocumentParser.count_tokens.  The tokenizer is an external library; a
\* token is taken to be a whitespace-separated word.
CountTokens(text) == Len(SplitWS(text))

\* the loop with the limit never tested
RECURSIVE ChunkLoopMerging(_, _, _, _, _)
ChunkLoopMerging(paragraphs, chunks, current_chunk, current_tokens, max_tokens) ==
    IF paragraphs = <<>>
    THEN (IF current_chunk # <<>> THEN Append(chunks, Strip(current_chunk)) ELSE chunks)
    ELSE LET paragraph == Head(paragraphs)
             paragraph_tokens == CountTokens(paragraph)
         IN  ChunkLoopMerging(Tail(paragraphs), chunks,
                              IF current_chunk # <<>>
                              THEN current_chunk \o <<"\n">> \o paragraph
                              ELSE paragraph,
                              current_tokens + paragraph_tokens, max_tokens)

\* the loop starting the new chunk empty
RECURSIVE ChunkLoopDropping(_, _, _, _, _)
ChunkLoopDropping(paragraphs, chunks, current_chunk, current_tokens, max_tokens) ==
    IF paragraphs = <<>>
    THEN (IF current_chunk # <<>> THEN Append(chunks, Strip(current_chunk)) ELSE chunks)
    ELSE LET paragraph == Head(paragraphs)
             paragraph_tokens == CountTokens(paragraph)
         IN  IF current_tokens + paragraph_tokens > max_tokens /\ current_chunk # <<>>
             THEN ChunkLoopDropping(Tail(paragraphs), Append(chunks, Strip(current_chunk)),
                                    <<>>, 0, max_tokens)
             ELSE ChunkLoopDropping(Tail(paragraphs), chunks,
                                    IF current_chunk # <<>>
                                    THEN current_chunk \o <<"\n">> \o paragraph
                                    ELSE paragraph,
                                    current_tokens + paragraph_tokens, max_tokens)

\* the loop of split_into_chunks over the remaining paragraphs
RECURSIVE ChunkLoop(_, _, _, _, _)
ChunkLoop(paragraphs, chunks, current_chunk, current_tokens, max_tokens) ==
    IF paragraphs = <<>>
    THEN (IF current_chunk # <<>> THEN Append(chunks, Strip(current_chunk)) ELSE chunks)
    ELSE LET paragraph == Head(paragraphs)
             paragraph_tokens == CountTokens(paragraph)
         IN  IF current_tokens + paragraph_tokens > max_tokens /\ current_chunk # <<>>
             THEN ChunkLoop(Tail(paragraphs), Append(chunks, Strip(current_chunk)),
                            paragraph, paragraph_tokens, max_tokens)
             ELSE ChunkLoop(Tail(paragraphs), chunks,
                            IF current_chunk # <<>>
                            THEN current_chunk \o <<"\n">> \o paragraph
                            ELSE paragraph,
                            current_tokens + paragraph_tokens, max_tokens)

\* [p.strip() for p in text.split('\n') if p.strip()]
Paragraphs(text) ==
    LET lines == SplitOn(text, "\n")
        NonBlank(p) == Strip(p) # <<>>
        kept == SelectSeq(lines, NonBlank)
    IN  [i \in 1..Len(kept) |-> Strip(kept[i])]

\* DocumentParser.split_into_chunks
SplitIntoChunks(text, max_tokens) ==
    ChunkLoop(Paragraphs(text), <<>>, <<>>, 0, max_tokens)

\* DocumentParser(max_tokens_per_chunk): the handlers construct the parser
\* with the default of 1000; the model's documents are a few words long
max_tokens_per_chunk == 6

PdfMagic == <<"%","P","D","F">>

DocxMagic == <<"P","K">>

\* DocumentParser.parse_pdf: the PDF library is external; a file that
\* starts with the PDF magic yields the text that follows, any other raises
ParsePdf(content) ==
    IF Take(content, Len(PdfMagic)) = PdfMagic
    THEN Returned(Drop(content, Len(PdfMagic)))
    ELSE Raised

\* DocumentParser.parse_docx, with the DOCX library modelled likewise
ParseDocx(content) ==
    IF Take(content, Len(DocxMagic)) = DocxMagic
    THEN Returned(Drop(content, Len(DocxMagic)))
    ELSE Raised

\* DocumentParser.parse_email: the body starts after the first blank line
ParseEmail(content) ==
    LET lines == SplitOn(content, "\n")
        body_start ==
            IF \E i \in DOMAIN lines : Strip(lines[i]) = <<>>
            THEN CHOOSE i \in DOMAIN lines :
                    Strip(lines[i]) = <<>> /\ \A j \in 1..(i - 1) : Strip(lines[j]) # <<>>
            ELSE 0
    IN  Join(<<"\n">>, Drop(lines, body_start))

\* url.split('?')[0].split('.')[-1].lower()
FileExtension(url) ==
    LET path == SplitOn(SplitOn(url, "?")[1], ".")
    IN  Lower(path[Len(path)])

Pdf == <<"p","d","f">>

Docx == <<"d","o","c","x">>

Doc == <<"d","o","c">>

ChunkPrefix == <<"c","h","u","n","k","_">>

\* the documents the model's web serves: a URL answered with 404, a PDF that
\* does not parse, an e-mail with no body text, and a two-paragraph policy
UrlMissing == <<"h","/","a",".","p","d","f">>

UrlCorrupt == <<"h","/","b",".","p","d","f">>

UrlBlank == <<"h","/","c",".","e","m","l">>

UrlPolicy == <<"h","/","d",".","P","D","F","?","s","=","1",".","2">>

Urls == {UrlMissing, UrlCorrupt, UrlBlank, UrlPolicy}

HttpOk == 200

HttpNotFound == 404

Web(url) ==
    IF url = UrlCorrupt THEN [status |-> HttpOk, content |-> <<"j","u","n","k">>]
    ELSE IF url = UrlBlank THEN [status |-> HttpOk, content |-> <<"T","o",":"," ","a","\n","\n"," ","\n">>]
    ELSE IF url = UrlPolicy THEN [status |-> HttpOk, content |-> <<"%","P","D","F","G","r","a","c","e"," ","p","e","r","i","o","d"," ","i","s"," ","3","0"," ","d","a","y","s",".","\n","\n","K","n","e","e"," ","s","u","r","g","e","r","y"," ","i","s"," ","c","o","v","e","r","e","d",".","\n">>]
    ELSE [status |-> HttpNotFound, content |-> <<>>]

\* DocumentParser.download_document: net is FALSE when the connection fails
DownloadDocument(url, net) ==
    IF ~net THEN Raised
    ELSE IF Web(url).status # HttpOk THEN Raised
    ELSE Returned(Web(url).content)

\* DocumentParser.process_document_from_url
ProcessDocumentFromUrl(url, net) ==
    LET content == DownloadDocument(url, net)
        file_extension == FileExtension(url)
        text == IF file_extension = Pdf THEN ParsePdf(content.val)
                ELSE IF file_extension \in {Docx, Doc} THEN ParseDocx(content.val)
                ELSE Returned(ParseEmail(content.val))
        chunks == SplitIntoChunks(text.val, max_tokens_per_chunk)
    IN  IF content.exc THEN Raised
        ELSE IF text.exc THEN Raised
        ELSE Returned([i \in 1..Len(chunks) |->
                [text |-> chunks[i],
                 chunk_id |-> ChunkPrefix \o IntToStr(i - 1),
                 doc_source |-> url,
                 file_type |-> file_extension,
                 token_count |-> CountTokens(chunks[i]),
                 chunk_index |-> i - 1,
                 total_chunks |-> Len(chunks)]])

(***************************************************************************)
(* EmbeddingServiceVercel (embedding_service_vercel.py).  pc is TRUE when  *)
(* self.pc is set; the index is a function from record ids to metadata.    *)
(***************************************************************************)
\* doc['text'][:100] of the record id
IdPrefixLen == 100

\* doc["text"][:1000] of the metadata
MetadataTextLimit == 1000

Unknown == <<"u","n","k","n","o","w","n">>

VARIABLES
    hash_seed,      \* the seed of hash() in the running server process
    embedding_model, \* what the embedding service in use embeds with
    index_dimension, \* the dimension of "hackrx-index" in Pinecone, 0 with no such index
    metadata,       \* EmbeddingIndexer.metadata, one entry per vector of its index
    retrieved,      \* the search the EmbeddingIndexer has just made
    unit,           \* a call of one function by itself: its input and its output
    parallel,       \* a call of parallel_process: its tasks and its semaphore
    chunker,        \* a call of chunk_text: its words, its position and its chunks
    tempdir         \* a call of process_document_from_url and the temporary files there are

\* the embedding service in use and its model: "md5" is EmbeddingServiceVercel
\* and its digest of the text, the others are EmbeddingService with
\* self.embedding_model loaded, and with None after the load has failed
Surrogate == "md5"
SemanticModels == {"all-MiniLM-L6-v2", "None"}

\* the most seeds hash() is given over the restarts of the server
MaxSeed == 1

\* the seeds of hash(): a process draws one when it starts, unless
\* PYTHONHASHSEED fixes it
Seeds == 0..MaxSeed

\* hash(s) of a str: a digest of s and of the seed of the process
StrHash(s) == <<"hash", hash_seed, s>>

\* f"doc_{i}_{hash(doc['text'][:100])}"
RecordId(i, text) == <<i, StrHash(Take(text, IdPrefixLen))>>

\* doc.get(key, default)
DocGet(doc, key, default) == IF key \in DOMAIN doc THEN doc[key] ELSE default

\* the vectors index_documents prepares, one per document in order
Vectors(documents) ==
    [k \in 1..Len(documents) |->
        [id |-> RecordId(k - 1, documents[k].text),
         metadata |-> [text |-> Take(documents[k].text, MetadataTextLimit),
                       source |-> DocGet(documents[k], "source", Unknown),
                       timestamp |-> DocGet(documents[k], "timestamp", <<>>)]]]

\* index.upsert(vectors): a record with an existing id is overwritten
RECURSIVE Upsert(_, _)
Upsert(index, vectors) ==
    IF vectors = <<>> THEN index
    ELSE Upsert([id \in DOMAIN index \cup {Head(vectors).id} |->
                    IF id = Head(vectors).id THEN Head(vectors).metadata ELSE index[id]],
                Tail(vectors))

\* what a call to the vector backend does: it succeeds, it raises before
\* anything was written, or it raises after the write was applied
BackendOutcomes == {"ok", "raise", "raise_applied"}

\* the outcome of an operation that may also write the index
Outcome(v, index) == [exc |-> FALSE, val |-> v, index |-> index]

\* EmbeddingServiceVercel.index_documents: the boolean it returns and the
\* index it leaves
IndexDocuments(pc, backend, documents, index) ==
    IF ~pc THEN Outcome(FALSE, index)
    ELSE IF embedding_model = "None" THEN Outcome(FALSE, index)
    ELSE IF Len(documents) = 0 THEN Outcome(FALSE, index)
    ELSE IF backend = "ok" THEN Outcome(TRUE, Upsert(index, Vectors(documents)))
    ELSE IF backend = "raise_applied"
    THEN Outcome(FALSE, Upsert(index, Vectors(documents)))
    ELSE Outcome(FALSE, index)

EmptyIndex == [id \in {} |-> <<>>]

\* the rankings index.query may return: top_k records of the index, or all
\* of them if it holds fewer, in the order of a score the backend computes
Rankings(index, top_k) ==
    {m \in [1..Min(top_k, Cardinality(DOMAIN index)) -> DOMAIN index] :
        \A a, b \in DOMAIN m : a # b => m[a] # m[b]}

\* search_similar with the query to the backend outside the try block
SearchSimilarUnguarded(pc, backend, matches, index) ==
    IF ~pc THEN Returned(<<>>)
    ELSE IF backend # "ok" THEN Raised
    ELSE Returned([k \in 1..Len(matches) |->
            [id |-> matches[k],
             text |-> index[matches[k]].text,
             source |-> index[matches[k]].source,
             timestamp |-> index[matches[k]].timestamp]])

\* EmbeddingServiceVercel.search_similar for one ranking of the backend
SearchSimilar(pc, backend, matches, index) ==
    IF ~pc \/ embedding_model = "None" THEN Returned(<<>>)
    ELSE IF backend # "ok" THEN Returned(<<>>)
    ELSE IF embedding_model # Surrogate
    THEN Returned([k \in 1..Len(matches) |->
            [id |-> matches[k], text |-> index[matches[k]].text]])
    ELSE Returned([k \in 1..Len(matches) |->
            [id |-> matches[k],
             text |-> index[matches[k]].text,
             source |-> index[matches[k]].source,
             timestamp |-> index[matches[k]].timestamp]])

\* EmbeddingServiceVercel.clear_index
ClearIndex(pc, backend, index) ==
    IF ~pc THEN Outcome(FALSE, index)
    ELSE IF backend = "ok" THEN Outcome(TRUE, EmptyIndex)
    ELSE IF backend = "raise_applied" THEN Outcome(FALSE, EmptyIndex)
    ELSE Outcome(FALSE, index)

NotInitialized == <<"P","i","n","e","c","o","n","e"," ","n","o","t"," ","i","n","i","t","i","a","l","i","z","e","d">>

\* str(e) of an exception the vector backend raised
BackendErrorText == <<"c","o","n","n","e","c","t","i","o","n"," ","r","e","f","u","s","e","d">>

\* the dimension the index is created with (_ensure_index_exists)
Dimension == 128

\* EmbeddingServiceVercel.get_index_stats
GetIndexStats(pc, backend, index) ==
    IF ~pc THEN Returned(PyDict([error |-> PyStr(NotInitialized)]))
    ELSE IF backend # "ok" THEN Returned(PyDict([error |-> PyStr(BackendErrorText)]))
    ELSE Returned(PyDict([total_vector_count |-> PyInt(Cardinality(DOMAIN index)),
                          dimension |-> PyInt(index_dimension)]))

\* a code point of the surrogate range standing alone in a str, which no
\* UTF-8 encoding has
LoneSurrogate == "U+D800"

\* text.encode(): whether it returns, or raises UnicodeEncodeError
Encodable(text) == \A i \in DOMAIN text : text[i] # LoneSurrogate

\* hashlib.md5(text.encode()).hexdigest() of the texts the model embeds
Md5HexDigest(text) ==
    CASE text = <<>> -> <<"d","4","1","d","8","c","d","9","8","f","0","0","b","2","0","4","e","9","8","0","0","9","9","8","e","c","f","8","4","2","7","e">>
      [] text = <<"a">> -> <<"0","c","c","1","7","5","b","9","c","0","f","1","b","6","a","8","3","1","c","3","9","9","e","2","6","9","7","7","2","6","6","1">>
      [] text = <<"g","r","a","c","e">> -> <<"1","5","e","5","c","8","7","b","1","8","c","1","2","8","9","d","4","5","b","b","4","a","7","2","9","6","1","b","5","8","e","8">>

HexDigits == <<"0","1","2","3","4","5","6","7","8","9","a","b","c","d","e","f">>

\* int(hex_pair, 16)
HexInt(hex_pair) ==
    LET Value(c) == (CHOOSE k \in DOMAIN HexDigits : HexDigits[k] = c) - 1
    IN  16 * Value(hex_pair[1]) + Value(hex_pair[2])

\* the vector without its padding
SimpleTextToVectorUnpadded(text) ==
    LET text_hash == Md5HexDigest(text)
    IN  [k \in 1..Min(Len(text_hash) \div 2, Dimension) |->
            PyFloat(HexInt(SubSeq(text_hash, 2 * k - 1, 2 * k)), 255)]

\* EmbeddingServiceVercel._simple_text_to_vector of a text that encodes
SimpleTextToVector(text) ==
    LET text_hash == Md5HexDigest(text)
    IN  [k \in 1..Dimension |->
            IF k <= Len(text_hash) \div 2
            THEN PyFloat(HexInt(SubSeq(text_hash, 2 * k - 1, 2 * k)), 255)
            ELSE PyFloat(0, 1)]

\* EmbeddingServiceVercel.get_embeddings
GetEmbeddings(texts) ==
    IF \E i \in DOMAIN texts : ~Encodable(texts[i]) THEN <<>>
    ELSE [i \in DOMAIN texts |-> SimpleTextToVector(texts[i])]

\* the dimension EmbeddingService creates the index with
SemanticDimension == 384

\* the dimensions "hackrx-index" may have been created with, 0 for no index
DeclaredDimensions == {0, Dimension, SemanticDimension}

\* what an upsert or a query may do: Pinecone refuses vectors of another
\* dimension than the index's, and an index that does not exist
VectorCalls ==
    IF index_dimension = (IF embedding_model = Surrogate THEN Dimension
                          ELSE SemanticDimension)
    THEN BackendOutcomes ELSE {"raise"}

\* what delete and describe_index_stats may do
IndexCalls == IF index_dimension # 0 THEN BackendOutcomes ELSE {"raise"}

\* EmbeddingServiceVercel._ensure_index_exists: the dimension of the index it
\* leaves
EnsureIndexExists(declared, backend) ==
    IF backend = "raise" THEN declared
    ELSE IF declared = 0 THEN Dimension
    ELSE declared

\* EmbeddingServiceVercel.__init__: whether self.pc is set, and the dimension
\* of the index it leaves
Construct(credentials, constructed, backend, declared) ==
    IF credentials /\ constructed
    THEN [pc |-> TRUE, index_dimension |-> EnsureIndexExists(declared, backend)]
    ELSE [pc |-> FALSE, index_dimension |-> declared]

(***************************************************************************)
(* PerformanceMonitor (utils.py)                                           *)
(***************************************************************************)
\* PerformanceMonitor(max_requests): the window of the deque; the source's
\* default is 1000
max_requests == 3

\* deque(maxlen=max_requests).append
DequeAppend(request_times, duration) ==
    IF Len(request_times) >= max_requests
    THEN Append(Tail(request_times), duration)
    ELSE Append(request_times, duration)

\* PerformanceMonitor.end_timer
EndTimer(request_times, duration) == DequeAppend(request_times, duration)

\* PerformanceMonitor.record_request: the deque and the counter it leaves
RecordRequest(request_times, request_count, duration) ==
    [request_times |-> DequeAppend(request_times, duration),
     request_count |-> request_count + 1]

RECURSIVE Sum(_)
Sum(s) == IF s = <<>> THEN 0 ELSE Head(s) + Sum(Tail(s))

\* PerformanceMonitor.get_stats (error_count is never incremented by the
\* service; the uptime is wall-clock time and is left out)
GetStats(request_times, request_count) ==
    IF request_times = <<>>
    THEN PyDict([total_requests |-> PyInt(0),
                 avg_response_time |-> PyInt(0),
                 min_response_time |-> PyInt(0),
                 max_response_time |-> PyInt(0),
                 error_rate |-> PyInt(0)])
    ELSE PyDict([total_requests |-> PyInt(request_count),
                 avg_response_time |-> PyFloat(Sum(request_times), Len(request_times)),
                 min_response_time |->
                    PyInt(CHOOSE t \in Range(request_times) :
                            \A u \in Range(request_times) : t <= u),
                 max_response_time |->
                    PyInt(CHOOSE t \in Range(request_times) :
                            \A u \in Range(request_times) : t >= u),
                 error_rate |-> PyFloat(0, IF request_count > 1 THEN request_count ELSE 1)])

(***************************************************************************)
(* The service (api_routes.py): a request, its handler and the detached    *)
(* webhook task, served while other requests use the same index            *)
(***************************************************************************)
\* expected_key of get_current_user
ExpectedKey == "4a7809a665f2f39b1f2fa7c7073518e6baa4ebe9309eea30dae92adba5772d8c"

Tokens == {ExpectedKey, "invalid-token"}

QuestionGrace == <<"W","h","a","t"," ","i","s"," ","t","h","e"," ","g","r","a","c","e"," ","p","e","r","i","o","d","?">>

QuestionKnee == <<"D","o","e","s"," ","i","t"," ","c","o","v","e","r"," ","k","n","e","e"," ","s","u","r","g","e","r","y","?">>

Questions == {QuestionGrace, QuestionKnee}

\* the longest list of questions of a request
MaxQuestions == 2

QuestionLists == UNION {[1..n -> Questions] : n \in 0..MaxQuestions}

\* the longest duration a timer measures, in ticks
MaxDuration == 1

Durations == 1..MaxDuration

\* top_k of the search of hackrx_run
TopKHackrx == 5

\* top_k of the search of process_single_query
TopKSingle == 3

HttpSuccess == 200

Unauthorized == 401

BadRequest == 400

ServerError == 500

InvalidApiKey == <<"I","n","v","a","l","i","d"," ","A","P","I"," ","k","e","y">>

FailedToProcess == <<"F","a","i","l","e","d"," ","t","o"," ","p","r","o","c","e","s","s"," ","d","o","c","u","m","e","n","t">>

FailedToIndex == <<"F","a","i","l","e","d"," ","t","o"," ","i","n","d","e","x"," ","d","o","c","u","m","e","n","t">>

InternalServerError == <<"I","n","t","e","r","n","a","l"," ","s","e","r","v","e","r"," ","e","r","r","o","r">>

FailedToClear == <<"F","a","i","l","e","d"," ","t","o"," ","c","l","e","a","r"," ","i","n","d","e","x">>

IndexCleared == <<"I","n","d","e","x"," ","c","l","e","a","r","e","d"," ","s","u","c","c","e","s","s","f","u","l","l","y">>

VARIABLES
    pc,             \* embedding_service.pc is set (the Pinecone client)
    client,         \* groq_service.client is set
    index,          \* the records of the Pinecone index, by id
    request_times,  \* performance_monitor.request_times
    request_count,  \* performance_monitor.request_count
    at,             \* where the request's handler is
    request,        \* the request as received
    locals,         \* the local variables of the handler
    response,       \* the response the request was answered with
    webhook,        \* the webhook task the handler created
    calls,          \* how many calls of each kind the request has made
    last,           \* the service operation the handler has just made
    computed        \* the questions hackrx_run has answered, as it answered them

\* what the handlers of a request leave alone
aside == <<hash_seed, embedding_model, index_dimension, metadata, retrieved, unit, parallel, chunker, tempdir>>

\* what the handlers of a request work on
service == <<pc, client, index, request_times, request_count, at, request, locals,
             response, webhook, calls, last, computed>>

vars == <<service, aside>>

NoRequest == [endpoint |-> "none", api_key |-> "", json |-> {}, documents |-> <<>>,
              questions |-> <<>>]

NoLocals == [document_chunks |-> <<>>, answers |-> <<>>, parsed_query |-> PyNone,
             similar_clauses |-> <<>>]

NoResponse == [status |-> 0, body |-> <<>>]

NoWebhook == [state |-> "none", results |-> <<>>, returned |-> FALSE]

NoCalls == [download |-> 0, parse |-> 0, chunks |-> 0, index |-> 0, index_failed |-> 0,
            parse_query |-> 0, search |-> 0, generate |-> 0, evaluate |-> 0,
            clear |-> 0, stats |-> 0, llm |-> 0, webhook |-> 0]

NoOperation == [op |-> "none", query |-> <<>>, arg |-> <<>>, cause |-> "none",
                result |-> Raised]

NoRetrieval == [top_k |-> 0, ntotal |-> 0, results |-> Raised]

\* a call of the function op on input, before and after it is made
UnitCall(op, input) == [op |-> op, input |-> input, done |-> FALSE, output |-> <<>>]

NoUnit == UnitCall("none", <<>>)

\* no call of parallel_process is made
NoParallel == [items |-> 0, max_concurrent |-> 0]

\* no call of chunk_text is made
NoChunker == [chunk_size |-> 0]

\* no call of process_document_from_url is made by itself
NoTempDir == [at |-> "none"]

\* no function is called by itself
NothingAside == unit = NoUnit /\ parallel = NoParallel /\ chunker = NoChunker /\ tempdir = NoTempDir

\* HTTPException(status_code, detail)
HttpError(status_code, detail) == [status |-> status_code, body |-> [detail |-> detail]]

Endpoints == {"hackrx", "single", "clear", "stats"}

\* the endpoints whose handler depends on get_current_user
Protected == {"hackrx", "single", "clear"}

\* the fields of the request models HackrxRequest and SingleQueryRequest
HackrxRequest == {"documents", "questions"}

SingleQueryRequest == {"document_url", "question"}

\* the fields of the JSON body that test_single_query of test_system.py posts
TestSingleQuery == {"document_url", "query"}

\* the fields the body of a request to the endpoint must have
RequestModel(endpoint) ==
    IF endpoint = "hackrx" THEN HackrxRequest
    ELSE IF endpoint = "single" THEN SingleQueryRequest
    ELSE {}

\* the status and the message FastAPI answers with when the body lacks a
\* field of the request model
UnprocessableEntity == 422

FieldRequired == <<"F","i","e","l","d"," ","r","e","q","u","i","r","e","d">>

\* the validation of the JSON body against the request model of the endpoint
ValidateBody(endpoint, json) ==
    IF RequestModel(endpoint) \subseteq json THEN Returned(json) ELSE Raised

\* the requests a client may send to an endpoint: json is the set of the
\* fields of the body, documents and questions what it carries as the URL of
\* the document and as the question or questions
RequestsTo(endpoint) ==
    IF endpoint = "hackrx"
    THEN {[endpoint |-> endpoint, api_key |-> k, json |-> HackrxRequest, documents |-> u,
           questions |-> qs] :
            k \in Tokens, u \in Urls, qs \in QuestionLists}
    ELSE IF endpoint = "single"
    THEN {[endpoint |-> endpoint, api_key |-> k, json |-> fields, documents |-> u,
           questions |-> <<q>>] :
            k \in Tokens, fields \in {SingleQueryRequest, TestSingleQuery},
            u \in Urls, q \in Questions}
    ELSE IF endpoint = "clear"
    THEN {[endpoint |-> endpoint, api_key |-> k, json |-> {}, documents |-> <<>>,
           questions |-> <<>>] :
            k \in Tokens}
    ELSE {[endpoint |-> endpoint, api_key |-> "", json |-> {}, documents |-> <<>>,
           questions |-> <<>>]}

\* get_current_user without the comparison with the expected key
GetCurrentUserAccepting(api_key) == Returned(api_key)

\* get_current_user
GetCurrentUser(api_key) ==
    IF api_key # ExpectedKey THEN Raised ELSE Returned(api_key)

\* what an operation returned or raised, without the index it left
Result(outcome) == [exc |-> outcome.exc, val |-> outcome.val]

\* why the vector backend was unavailable to an operation, "none" if it was not
BackendCause(backend) ==
    IF ~pc THEN "no_pc"
    ELSE IF embedding_model = "None" THEN "no_model"
    ELSE IF backend # "ok" THEN "raised"
    ELSE "none"

\* the record of an EmbeddingServiceVercel operation the handler has made
BackendOperation(op, backend, outcome) ==
    [op |-> op, query |-> <<>>, arg |-> <<>>, cause |-> BackendCause(backend),
     result |-> Result(outcome)]

\* why a GroqService operation took its fallback, "none" if it did not
Cause(llm, json) ==
    IF ~client THEN "no_client"
    ELSE IF llm.raised THEN "raised"
    ELSE IF json /\ ~JsonLoads(Strip(llm.content)).ok THEN "unparseable"
    ELSE "none"

\* the state after the services are constructed, "hackrx-index" having one
\* of these dimensions and the embedding service one of these models
InitWith(dimensions, models) ==
    /\ index_dimension \in dimensions
    /\ embedding_model \in models
    /\ pc \in BOOLEAN
    /\ client \in BOOLEAN
    /\ index = EmptyIndex
    /\ request_times = <<>>
    /\ request_count = 0
    /\ at = "idle"
    /\ request = NoRequest
    /\ locals = NoLocals
    /\ response = NoResponse
    /\ webhook = NoWebhook
    /\ calls = NoCalls
    /\ last = NoOperation
    /\ computed = <<>>
    /\ hash_seed = 0
    /\ metadata = <<>>
    /\ retrieved = NoRetrieval

\* the service runs on the index it has created
Init == InitWith({Dimension}, {Surrogate}) /\ NothingAside

\* the handler ends with this response; its local variables are gone
Respond(resp) ==
    /\ at' = "done"
    /\ response' = resp
    /\ locals' = NoLocals

\* the request arrives: the dependency get_current_user is resolved, then the
\* body is validated against the request model
Arrive ==
    /\ at = "idle"
    /\ \E endpoint \in Endpoints : \E req \in RequestsTo(endpoint) :
        /\ request' = req
        /\ IF endpoint \in Protected /\ GetCurrentUser(req.api_key).exc
           THEN Respond(HttpError(Unauthorized, InvalidApiKey))
           ELSE IF ValidateBody(endpoint, req.json).exc
           THEN Respond(HttpError(UnprocessableEntity, FieldRequired))
           ELSE /\ at' = "start"
                /\ UNCHANGED <<response, locals>>
    /\ UNCHANGED <<aside, pc, client, index, request_times, request_count, webhook, calls, last,
                   computed>>

\* process_document_from_url without the check for an empty list of chunks
ProcessDocumentUnchecked(net) ==
    LET document_chunks == ProcessDocumentFromUrl(request.documents, net)
        downloaded == ~DownloadDocument(request.documents, net).exc
    IN  /\ calls' = [calls EXCEPT !.download = @ + 1,
                                  !.parse = @ + (IF downloaded THEN 1 ELSE 0),
                                  !.chunks = @ + (IF document_chunks.exc THEN 0
                                                  ELSE Len(document_chunks.val))]
        /\ IF document_chunks.exc
           THEN Respond(HttpError(ServerError, InternalServerError))
           ELSE /\ at' = "index"
                /\ locals' = [locals EXCEPT !.document_chunks = document_chunks.val]
                /\ UNCHANGED response
        /\ UNCHANGED <<aside, pc, client, index, request_times, request_count, request,
                       webhook, last, computed>>

\* process_document_from_url and the check of its result, as hackrx_run and
\* process_single_query make them
ProcessDocument(net) ==
    LET document_chunks == ProcessDocumentFromUrl(request.documents, net)
        downloaded == ~DownloadDocument(request.documents, net).exc
    IN  /\ calls' = [calls EXCEPT !.download = @ + 1,
                                  !.parse = @ + (IF downloaded THEN 1 ELSE 0),
                                  !.chunks = @ + (IF document_chunks.exc THEN 0
                                                  ELSE Len(document_chunks.val))]
        /\ IF document_chunks.exc
           THEN Respond(HttpError(ServerError, InternalServerError))
           ELSE IF document_chunks.val = <<>>
           THEN Respond(HttpError(BadRequest, FailedToProcess))
           ELSE /\ at' = "index"
                /\ locals' = [locals EXCEPT !.document_chunks = document_chunks.val]
                /\ UNCHANGED response
        /\ UNCHANGED <<aside, pc, client, index, request_times, request_count, request,
                       webhook, last, computed>>

\* where the question loop of hackrx_run goes once answers are recorded
NextQuestion(answers) ==
    IF Len(answers) < Len(request.questions) THEN "parse_query" ELSE "finish"

\* the loop taking the questions from the last to the first
QuestionBackwards == request.questions[Len(request.questions) - Len(locals.answers)]

\* the question the loop is at
Question == request.questions[Len(locals.answers) + 1]

\* the parse_query call of a handler
CallParseQuery(llm) ==
    LET parsed_query == ParseQuery(client, llm, Question)
    IN  /\ calls' = [calls EXCEPT !.parse_query = @ + 1,
                                  !.llm = @ + (IF client THEN 1 ELSE 0)]
        /\ last' = [op |-> "parse_query", query |-> Question, arg |-> <<>>,
                    cause |-> Cause(llm, TRUE), result |-> parsed_query]
        /\ IF parsed_query.exc
           THEN Respond(HttpError(ServerError, InternalServerError))
           ELSE /\ at' = "search"
                /\ locals' = [locals EXCEPT !.parsed_query = parsed_query.val]
                /\ UNCHANGED response
        /\ UNCHANGED <<aside, pc, client, index, request_times, request_count, request, webhook,
                       computed>>

\* ---- hackrx_run ----

HackrxProcessDocument ==
    /\ at = "start"
    /\ request.endpoint = "hackrx"
    /\ \E net \in BOOLEAN : ProcessDocument(net)

\* the indexing step of hackrx_run without the check of indexing_success
HackrxIndexDocumentsUnchecked ==
    /\ at = "index"
    /\ request.endpoint = "hackrx"
    /\ \E backend \in VectorCalls :
        LET indexing_success == IndexDocuments(pc, backend, locals.document_chunks, index)
        IN  /\ index' = indexing_success.index
            /\ last' = BackendOperation("index_documents", backend, indexing_success)
            /\ calls' = [calls EXCEPT
                    !.index = @ + 1,
                    !.index_failed = @ + (IF indexing_success.exc \/ ~indexing_success.val
                                          THEN 1 ELSE 0)]
            /\ IF indexing_success.exc
               THEN Respond(HttpError(ServerError, InternalServerError))
               ELSE /\ at' = NextQuestion(<<>>)
                    /\ locals' = [locals EXCEPT !.answers = <<>>]
                    /\ UNCHANGED response
    /\ UNCHANGED <<aside, pc, client, request_times, request_count, request, webhook, computed>>

HackrxIndexDocuments ==
    /\ at = "index"
    /\ request.endpoint = "hackrx"
    /\ \E backend \in VectorCalls :
        LET indexing_success == IndexDocuments(pc, backend, locals.document_chunks, index)
        IN  /\ index' = indexing_success.index
            /\ last' = BackendOperation("index_documents", backend, indexing_success)
            /\ calls' = [calls EXCEPT
                    !.index = @ + 1,
                    !.index_failed = @ + (IF indexing_success.exc \/ ~indexing_success.val
                                          THEN 1 ELSE 0)]
            /\ IF indexing_success.exc
               THEN Respond(HttpError(ServerError, InternalServerError))
               ELSE IF ~indexing_success.val
               THEN Respond(HttpError(ServerError, FailedToIndex))
               ELSE /\ at' = NextQuestion(<<>>)
                    /\ locals' = [locals EXCEPT !.answers = <<>>]
                    /\ UNCHANGED response
    /\ UNCHANGED <<aside, pc, client, request_times, request_count, request, webhook, computed>>

HackrxParseQuery ==
    /\ at = "parse_query"
    /\ request.endpoint = "hackrx"
    /\ \E llm \in LLMOutcomes : CallParseQuery(llm)

\* [clause["text"] for clause in similar_clauses]
RelevantTexts(similar_clauses) ==
    [k \in 1..Len(similar_clauses) |-> similar_clauses[k].text]

\* answers.insert(0, answer)
AppendAnswerFirst(answers, answer) == <<answer>> \o answers

\* answers.append(answer)
AppendAnswer(answers, answer) == Append(answers, answer)

\* the search of a question without the check for an empty result
HackrxSearchUnchecked ==
    /\ at = "search"
    /\ request.endpoint = "hackrx"
    /\ \E backend \in VectorCalls : \E matches \in Rankings(index, TopKHackrx) :
        LET similar_clauses == SearchSimilar(pc, backend, matches, index)
        IN  /\ last' = BackendOperation("search_similar", backend, similar_clauses)
            /\ IF similar_clauses.exc
               THEN Respond(HttpError(ServerError, InternalServerError))
               ELSE /\ at' = "generate"
                    /\ locals' = [locals EXCEPT !.similar_clauses = similar_clauses.val]
                    /\ UNCHANGED response
    /\ calls' = [calls EXCEPT !.search = @ + 1]
    /\ UNCHANGED <<aside, pc, client, index, request_times, request_count, request, webhook,
                   computed>>

\* the search of a question and, when it finds nothing, the fixed answer
HackrxSearch ==
    /\ at = "search"
    /\ request.endpoint = "hackrx"
    /\ \E backend \in VectorCalls : \E matches \in Rankings(index, TopKHackrx) :
        LET similar_clauses == SearchSimilar(pc, backend, matches, index)
            answers == AppendAnswer(locals.answers, NoInfoInDocument)
        IN  /\ last' = BackendOperation("search_similar", backend, similar_clauses)
            /\ IF similar_clauses.exc
               THEN /\ Respond(HttpError(ServerError, InternalServerError))
                    /\ UNCHANGED computed
               ELSE IF similar_clauses.val = <<>>
               THEN /\ at' = NextQuestion(answers)
                    /\ locals' = [locals EXCEPT !.answers = answers,
                                                !.similar_clauses = <<>>]
                    /\ computed' = Append(computed,
                            [question |-> Question, found |-> 0, generated |-> FALSE,
                             answer |-> NoInfoInDocument])
                    /\ UNCHANGED response
               ELSE /\ at' = "generate"
                    /\ locals' = [locals EXCEPT !.similar_clauses = similar_clauses.val]
                    /\ UNCHANGED <<response, computed>>
    /\ calls' = [calls EXCEPT !.search = @ + 1]
    /\ UNCHANGED <<aside, pc, client, index, request_times, request_count, request, webhook>>

HackrxGenerate ==
    /\ at = "generate"
    /\ request.endpoint = "hackrx"
    /\ \E llm \in LLMOutcomes :
        LET relevant_texts == RelevantTexts(locals.similar_clauses)
            answer == GenerateDetailedAnswer(client, llm, Question, relevant_texts)
            answers == AppendAnswer(locals.answers, answer.val)
        IN  /\ last' = [op |-> "generate_detailed_answer", query |-> Question,
                        arg |-> relevant_texts, cause |-> Cause(llm, FALSE),
                        result |-> answer]
            /\ IF answer.exc
               THEN /\ Respond(HttpError(ServerError, InternalServerError))
                    /\ UNCHANGED computed
               ELSE /\ at' = NextQuestion(answers)
                    /\ locals' = [locals EXCEPT !.answers = answers]
                    /\ computed' = Append(computed,
                            [question |-> Question, found |-> Len(relevant_texts),
                             generated |-> TRUE, answer |-> answer.val])
                    /\ UNCHANGED response
    /\ calls' = [calls EXCEPT !.generate = @ + 1, !.llm = @ + (IF client THEN 1 ELSE 0)]
    /\ UNCHANGED <<aside, pc, client, index, request_times, request_count, request, webhook>>

\* the end of hackrx_run: the webhook task is created, the duration is
\* recorded and the answers are returned, with no suspension in between
HackrxFinish ==
    /\ at = "finish"
    /\ request.endpoint = "hackrx"
    /\ \E processing_time \in Durations :
        LET monitor == RecordRequest(EndTimer(request_times, processing_time),
                                     request_count, processing_time)
        IN  /\ request_times' = monitor.request_times
            /\ request_count' = monitor.request_count
    /\ webhook' = [state |-> "scheduled", results |-> locals.answers, returned |-> FALSE]
    /\ Respond([status |-> HttpSuccess, body |-> [answers |-> locals.answers]])
    /\ last' = NoOperation
    /\ UNCHANGED <<aside, pc, client, index, request, calls, computed>>

\* how the POST of the webhook task may end
WebhookOutcomes == {"ok", "bad_status", "timeout", "error"}

\* submit_to_webhook: the value the task ends with
SubmitToWebhook(outcome) == outcome = "ok"

\* the webhook task with its failure raised into the request
RunWebhookPropagating ==
    /\ webhook.state = "scheduled"
    /\ \E outcome \in WebhookOutcomes :
        /\ webhook' = [webhook EXCEPT !.state = "finished",
                                      !.returned = SubmitToWebhook(outcome)]
        /\ response' = IF SubmitToWebhook(outcome) THEN response
                       ELSE HttpError(ServerError, InternalServerError)
    /\ calls' = [calls EXCEPT !.webhook = @ + 1]
    /\ UNCHANGED <<aside, pc, client, index, request_times, request_count, at, request,
                   locals, last, computed>>

\* the webhook task with a second POST after a failed one
RunWebhookRetrying ==
    /\ webhook.state = "scheduled"
    /\ \E outcome \in WebhookOutcomes :
        webhook' = [webhook EXCEPT
                        !.state = IF SubmitToWebhook(outcome) \/ calls.webhook >= 1
                                  THEN "finished" ELSE "scheduled",
                        !.returned = SubmitToWebhook(outcome)]
    /\ calls' = [calls EXCEPT !.webhook = @ + 1]
    /\ UNCHANGED <<aside, pc, client, index, request_times, request_count, at, request,
                   locals, response, last, computed>>

\* the webhook task runs: one POST, whose outcome only the task sees
RunWebhook ==
    /\ webhook.state = "scheduled"
    /\ \E outcome \in WebhookOutcomes :
        webhook' = [webhook EXCEPT !.state = "finished",
                                   !.returned = SubmitToWebhook(outcome)]
    /\ calls' = [calls EXCEPT !.webhook = @ + 1]
    /\ UNCHANGED <<aside, pc, client, index, request_times, request_count, at, request,
                   locals, response, last, computed>>

\* ---- process_single_query ----

SingleProcessDocument ==
    /\ at = "start"
    /\ request.endpoint = "single"
    /\ \E net \in BOOLEAN : ProcessDocument(net)

\* the value index_documents returns is not looked at
SingleIndexDocuments ==
    /\ at = "index"
    /\ request.endpoint = "single"
    /\ \E backend \in VectorCalls :
        LET indexed == IndexDocuments(pc, backend, locals.document_chunks, index)
        IN  /\ index' = indexed.index
            /\ last' = BackendOperation("index_documents", backend, indexed)
            /\ calls' = [calls EXCEPT
                    !.index = @ + 1,
                    !.index_failed = @ + (IF indexed.exc \/ ~indexed.val THEN 1 ELSE 0)]
            /\ IF indexed.exc
               THEN Respond(HttpError(ServerError, InternalServerError))
               ELSE /\ at' = "parse_query"
                    /\ UNCHANGED <<locals, response>>
    /\ UNCHANGED <<aside, pc, client, request_times, request_count, request, webhook, computed>>

SingleParseQuery ==
    /\ at = "parse_query"
    /\ request.endpoint = "single"
    /\ \E llm \in LLMOutcomes : CallParseQuery(llm)

\* SingleQueryResponse(answer, explanation, processing_time)
SingleQueryResponse(answer, explanation, processing_time) ==
    [status |-> HttpSuccess,
     body |-> [answer |-> answer, explanation |-> explanation,
               processing_time |-> processing_time]]

SingleSearch ==
    /\ at = "search"
    /\ request.endpoint = "single"
    /\ \E backend \in VectorCalls : \E matches \in Rankings(index, TopKSingle) :
       \E processing_time \in Durations :
        LET similar_clauses == SearchSimilar(pc, backend, matches, index)
        IN  /\ last' = BackendOperation("search_similar", backend, similar_clauses)
            /\ IF similar_clauses.exc
               THEN /\ Respond(HttpError(ServerError, InternalServerError))
                    /\ UNCHANGED request_times
               ELSE IF similar_clauses.val = <<>>
               THEN /\ request_times' = EndTimer(request_times, processing_time)
                    /\ Respond(SingleQueryResponse(SingleNoInfoAnswer,
                                   SingleNoInfoExplanation, processing_time))
               ELSE /\ at' = "evaluate"
                    /\ locals' = [locals EXCEPT !.similar_clauses = similar_clauses.val]
                    /\ UNCHANGED <<request_times, response>>
    /\ calls' = [calls EXCEPT !.search = @ + 1]
    /\ UNCHANGED <<aside, pc, client, index, request_count, request, webhook, computed>>

\* evaluation.get(key, default)
DictGet(d, key, default) == IF key \in DOMAIN d.v THEN d.v[key] ELSE default

\* lines 182-187 of process_single_query: the answer and the explanation
\* taken from the evaluation, or the exception raised on the way
SingleAnswer(evaluation) ==
    IF evaluation.t # "dict" THEN Raised
    ELSE IF DictGet(evaluation, "answer", PyStr(<<>>)).t # "str" THEN Raised
    ELSE IF Lower(DictGet(evaluation, "answer", PyStr(<<>>)).v) = Yes
    THEN Returned([answer |-> DictGet(evaluation, "direct_answer",
                                      PyStr(DefaultDirectAnswer)),
                   explanation |-> DictGet(evaluation, "explanation",
                                           PyStr(DefaultExplanation))])
    ELSE Returned([answer |-> PyStr(SingleNoAnswer),
                   explanation |-> PyStr(SingleNoAnswerExplanation)])

SingleEvaluate ==
    /\ at = "evaluate"
    /\ request.endpoint = "single"
    /\ \E llm \in LLMOutcomes : \E processing_time \in Durations :
        LET best_clause == locals.similar_clauses[1].text
            evaluation == EvaluateClause(client, llm, Question, best_clause)
            found == SingleAnswer(evaluation.val)
        IN  /\ last' = [op |-> "evaluate_clause", query |-> Question,
                        arg |-> best_clause, cause |-> Cause(llm, TRUE),
                        result |-> evaluation]
            /\ IF evaluation.exc \/ found.exc
               THEN /\ Respond(HttpError(ServerError, InternalServerError))
                    /\ UNCHANGED request_times
               ELSE /\ request_times' = EndTimer(request_times, processing_time)
                    \* the response model accepts strings only
                    /\ IF found.val.answer.t = "str" /\ found.val.explanation.t = "str"
                       THEN Respond(SingleQueryResponse(found.val.answer.v,
                                        found.val.explanation.v, processing_time))
                       ELSE Respond(HttpError(ServerError, InternalServerError))
    /\ calls' = [calls EXCEPT !.evaluate = @ + 1, !.llm = @ + (IF client THEN 1 ELSE 0)]
    /\ UNCHANGED <<aside, pc, client, index, request_count, request, webhook, computed>>

\* ---- clear_index and get_stats ----

ErrorClearing == <<"E","r","r","o","r"," ","c","l","e","a","r","i","n","g"," ","i","n","d","e","x">>

ErrorStatistics == <<"E","r","r","o","r"," ","r","e","t","r","i","e","v","i","n","g"," ","s","t","a","t","i","s","t","i","c","s">>

ClearIndexHandler ==
    /\ at = "start"
    /\ request.endpoint = "clear"
    /\ \E backend \in IndexCalls :
        LET success == ClearIndex(pc, backend, index)
        IN  /\ index' = success.index
            /\ last' = BackendOperation("clear_index", backend, success)
            /\ IF success.exc
               THEN Respond(HttpError(ServerError, ErrorClearing))
               ELSE IF success.val
               THEN Respond([status |-> HttpSuccess, body |-> [message |-> IndexCleared]])
               ELSE Respond(HttpError(ServerError, FailedToClear))
    /\ calls' = [calls EXCEPT !.clear = @ + 1]
    /\ UNCHANGED <<aside, pc, client, request_times, request_count, request, webhook, computed>>

\* the cache holds nothing: the service never stores into it
CacheStats ==
    PyDict([memory_cache_size |-> PyInt(0), redis_cache_size |-> PyInt(0),
            total_size |-> PyInt(0)])

GetStatsHandler ==
    /\ at = "start"
    /\ request.endpoint = "stats"
    /\ \E backend \in IndexCalls :
        LET index_stats == GetIndexStats(pc, backend, index)
        IN  /\ last' = BackendOperation("get_index_stats", backend, index_stats)
            /\ IF index_stats.exc
               THEN Respond(HttpError(ServerError, ErrorStatistics))
               ELSE Respond([status |-> HttpSuccess,
                             body |-> [index_stats |-> index_stats.val,
                                       performance_stats |->
                                            GetStats(request_times, request_count),
                                       cache_stats |-> CacheStats]])
    /\ calls' = [calls EXCEPT !.stats = @ + 1]
    /\ UNCHANGED <<aside, pc, client, index, request_times, request_count, request, webhook,
                   computed>>

\* ---- the other requests the service handles meanwhile ----

\* the chunk lists other requests index: those of the documents that yield
\* chunks
OtherDocuments ==
    {ProcessDocumentFromUrl(url, TRUE).val :
        url \in {u \in Urls : /\ ~ProcessDocumentFromUrl(u, TRUE).exc
                              /\ ProcessDocumentFromUrl(u, TRUE).val # <<>>}}

\* another request indexes the chunks of its document while the handler runs
OtherIndexDocuments ==
    /\ at # "done"
    /\ \E document_chunks \in OtherDocuments : \E backend \in VectorCalls :
        /\ index' = IndexDocuments(pc, backend, document_chunks, index).index
        /\ index' # index
    /\ UNCHANGED <<aside, pc, client, request_times, request_count, at, request, locals,
                   response, webhook, calls, last, computed>>

\* another request clears the index while the handler runs
OtherClearIndex ==
    /\ at # "done"
    /\ \E backend \in IndexCalls : index' = ClearIndex(pc, backend, index).index
    /\ index' # index
    /\ UNCHANGED <<aside, pc, client, request_times, request_count, at, request, locals,
                   response, webhook, calls, last, computed>>

Next ==
    \/ Arrive
    \/ HackrxProcessDocument
    \/ HackrxIndexDocuments
    \/ HackrxParseQuery
    \/ HackrxSearch
    \/ HackrxGenerate
    \/ HackrxFinish
    \/ RunWebhook
    \/ SingleProcessDocument
    \/ SingleIndexDocuments
    \/ SingleParseQuery
    \/ SingleSearch
    \/ SingleEvaluate
    \/ ClearIndexHandler
    \/ GetStatsHandler
    \/ OtherIndexDocuments
    \/ OtherClearIndex

Spec == Init /\ [][Next]_vars

(***************************************************************************)
(* The index over restarts of the server: the requests that write the     *)
(* index, up to the write, and the restart of the process                  *)
(***************************************************************************)
\* the server process is restarted between requests: hash() gets the seed
\* of the new process, and the index, which Pinecone holds, stays
Restart ==
    /\ at = "idle"
    /\ hash_seed' \in Seeds
    /\ \E credentials \in BOOLEAN : \E constructed \in BOOLEAN :
       \E backend \in BackendOutcomes :
        LET made == Construct(credentials, constructed, backend, index_dimension)
        IN  /\ pc' = made.pc
            /\ index_dimension' = made.index_dimension
    /\ UNCHANGED <<client, index, request_times, request_count, at, request, locals,
                   response, webhook, calls, last, computed, embedding_model, metadata,
                   retrieved, unit, parallel, chunker, tempdir>>

RestartNext ==
    \/ Arrive
    \/ HackrxProcessDocument
    \/ HackrxIndexDocuments
    \/ SingleProcessDocument
    \/ SingleIndexDocuments
    \/ ClearIndexHandler
    \/ OtherIndexDocuments
    \/ OtherClearIndex
    \/ Restart

\* the server starts beside whatever index the Pinecone project holds
RestartInit == InitWith(DeclaredDimensions, {Surrogate}) /\ NothingAside

RestartSpec == RestartInit /\ [][RestartNext]_vars

\* ------------------------------------------------------------------
\* /hackrx/run served with EmbeddingService, the semantic embedding service,
\* in the place of EmbeddingServiceVercel: it has the same methods, and the
\* route calls them the same way
\* ------------------------------------------------------------------

SemanticInit == InitWith({SemanticDimension}, SemanticModels) /\ NothingAside

SemanticNext ==
    \/ Arrive
    \/ HackrxProcessDocument
    \/ HackrxIndexDocuments
    \/ HackrxParseQuery
    \/ HackrxSearch
    \/ HackrxGenerate
    \/ HackrxFinish
    \/ RunWebhook

SemanticSpec == SemanticInit /\ [][SemanticNext]_vars

(***************************************************************************)
(* EmbeddingIndexer (embedding/embedding_index.py): the local FAISS index  *)
(* and the metadata list kept beside it                                    *)
(***************************************************************************)
\* the most entries the local index is filled with
MaxRecords == 2

\* the largest top_k of a search of the local index
MaxTopK == 3

\* the chunks build_index may add, by the page they come from
IndexerChunks == {[text |-> <<"a">>, page |-> 1], [text |-> <<"b">>, page |-> 2]}

\* {k: v for k, v in c.items() if k != 'text'}
WithoutText(c) == [k \in DOMAIN c \ {"text"} |-> c[k]]

\* list[i] of Python: a negative i counts from the end, an i outside the
\* list raises IndexError
PyIndex(list, i) ==
    IF 0 <= i /\ i < Len(list) THEN Returned(list[i + 1])
    ELSE IF i < 0 /\ -i <= Len(list) THEN Returned(list[Len(list) + i + 1])
    ELSE Raised

\* the labels index.search(q_emb, top_k) returns for the query: the nearest
\* min(top_k, ntotal) vectors in some order, then -1 up to top_k labels
Labels(ntotal, top_k) ==
    {[k \in 1..top_k |-> IF k <= Len(nearest) THEN nearest[k] ELSE -1] :
        nearest \in {m \in [1..Min(top_k, ntotal) -> 0..(ntotal - 1)] :
                        \A a, b \in DOMAIN m : a # b => m[a] # m[b]}}

\* the loop of EmbeddingIndexer.search over the labels
RECURSIVE SearchLoop(_, _, _)
SearchLoop(labels, list, results) ==
    IF labels = <<>> THEN Returned(results)
    ELSE IF Head(labels) < Len(list)
    THEN LET entry == PyIndex(list, Head(labels))
         IN  IF entry.exc THEN Raised
             ELSE SearchLoop(Tail(labels), list, Append(results, entry.val))
    ELSE SearchLoop(Tail(labels), list, results)

\* EmbeddingIndexer.search for the labels the index returned
IndexerSearch(labels, list) == SearchLoop(labels, list, <<>>)

\* EmbeddingIndexer.add: one vector and one metadata entry per chunk
Add ==
    /\ \E n \in 1..MaxRecords : \E chunks \in [1..n -> IndexerChunks] :
        /\ Len(metadata) + n <= MaxRecords
        /\ metadata' = metadata \o [k \in 1..n |-> WithoutText(chunks[k])]
    /\ UNCHANGED <<service, hash_seed, embedding_model, index_dimension, retrieved, unit, parallel, chunker, tempdir>>

\* retrieve_clauses: a search of the index as it is
Search ==
    /\ \E top_k \in 1..MaxTopK : \E labels \in Labels(Len(metadata), top_k) :
        retrieved' = [top_k |-> top_k, ntotal |-> Len(metadata),
                      results |-> IndexerSearch(labels, metadata)]
    /\ UNCHANGED <<service, hash_seed, embedding_model, index_dimension, metadata, unit, parallel, chunker, tempdir>>

IndexerNext == Add \/ Search

IndexerSpec == Init /\ [][IndexerNext]_vars

\* ------------------------------------------------------------------
\* The functions of the pipeline called by themselves, each on an input
\* drawn when the behaviour starts
\* ------------------------------------------------------------------

\* the longest text given to split_into_chunks, and the characters it is
\* made of
MaxText == 6

TextAlphabet == {"a", "b", " ", "\n"}

Texts == UNION {[1..n -> TextAlphabet] : n \in 0..MaxText}

\* the largest max_tokens_per_chunk a DocumentParser is constructed with
MaxTokens == 3

SplitInputs == [text : Texts, max_tokens : 1..MaxTokens]

\* the texts given to get_embeddings and the most of them in one call
EmbeddedTexts == {<<>>, <<"a">>, <<"g","r","a","c","e">>, <<LoneSurrogate>>}

MaxTexts == 3

EmbedInputs == UNION {[1..n -> EmbeddedTexts] : n \in 0..MaxTexts}

\* the phrases the queries given to parse_query are made of, and the most of
\* them in one query
Phrases == {
    <<"g","r","a","c","e"," ","p","e","r","i","o","d">>,
    <<"W","a","i","t","i","n","g">>,
    <<"P","r","e","m","i","u","m">>,
    <<"p","a","y","m","e","n","t">>,
    <<"c","o","v","e","r","a","g","e">>,
    <<"b","e","n","e","f","i","t">>,
    <<"c","l","a","i","m">>,
    <<"n","o"," ","c","l","a","i","m"," ","d","i","s","c","o","u","n","t">>,
    <<"N","C","D">>,
    <<"d","e","t","e","r","m","i","n","e">>,
    <<"s","u","r","g","e","r","y">>}

MaxPhrases == 2

ExampleQuery == <<"W","h","a","t"," ","i","s"," ","t","h","e"," ","g","r","a","c","e"," ","p","e","r","i","o","d"," ","f","o","r"," ","p","r","e","m","i","u","m"," ","p","a","y","m","e","n","t","?">>

Queries ==
    {Join(<<" ">>, phrases) :
        phrases \in UNION {[1..n -> Phrases] : n \in 0..MaxPhrases}}
        \cup {ExampleQuery}

ParseInputs == [query : Queries, client : BOOLEAN, llm : LLMOutcomes]

\* the words the questions and the clauses given to _fallback_evaluate_clause
\* are made of, and the most of them in a question and in a clause
QuestionWords == {<<"K","n","e","e">>, <<"k","n","e","e">>, <<"s","u","r","g","e","r","y">>, <<"i","s">>}

ClauseWords == {<<"k","n","e","e">>, <<"S","u","r","g","e","r","y">>, <<"c","o","v","e","r","e","d">>}

MaxQuestionWords == 4

MaxClauseWords == 2

ExampleQuestion == <<"I","s"," ","k","n","e","e"," ","s","u","r","g","e","r","y"," ","c","o","v","e","r","e","d","?">>

ExampleClause == <<"K","n","e","e"," ","s","u","r","g","e","r","y"," ","i","s"," ","c","o","v","e","r","e","d"," ","u","n","d","e","r"," ","t","h","i","s"," ","p","o","l","i","c","y",".">>

EvalInputs ==
    [query : {Join(<<" ">>, words) :
                words \in UNION {[1..n -> QuestionWords] : n \in 0..MaxQuestionWords}},
     clause : {Join(<<" ">>, words) :
                words \in UNION {[1..n -> ClauseWords] : n \in 0..MaxClauseWords}}]
        \cup {[query |-> ExampleQuestion, clause |-> ExampleClause]}

\* the questions and the retrieved texts given to _fallback_generate_answer,
\* one of them longer than the answer may be, and the most texts of a call
AnswerQueries == {<<>>, <<"g","r","a","c","e">>, <<"G","r","a","c","e"," ","p","e","r","i","o","d">>, <<"k","n","e","e">>}

LongText == [i \in 1..(AnswerLimit + 1) |-> "x"]

RetrievedTexts ==
    {<<"T","h","e"," ","g","r","a","c","e"," ","p","e","r","i","o","d"," ","i","s"," ","3","0"," ","d","a","y","s","."," ","P","a","y"," ","o","n"," ","t","i","m","e">>,
     <<"N","o"," ","k","n","e","e","."," ","G","r","a","c","e","."," ","3","0"," ","d","a","y","s","."," "," ","G","R","A","C","E"," ","a","g","a","i","n"," ","."," ","m","o","r","e"," ","g","r","a","c","e">>,
     <<"N","o","t","h","i","n","g"," ","h","e","r","e">>,
     LongText}

MaxRetrievedTexts == 2

GenerateInputs ==
    [query : AnswerQueries,
     relevant_texts : UNION {[1..n -> RetrievedTexts] : n \in 0..MaxRetrievedTexts}]

UnitInputs ==
    {UnitCall("split_into_chunks", input) : input \in SplitInputs}
        \cup {UnitCall("get_embeddings", input) : input \in EmbedInputs}
        \cup {UnitCall("parse_query", input) : input \in ParseInputs}
        \cup {UnitCall("_fallback_evaluate_clause", input) : input \in EvalInputs}
        \cup {UnitCall("_fallback_generate_answer", input) : input \in GenerateInputs}

UnitInit ==
    /\ InitWith({Dimension}, {Surrogate})
    /\ pc
    /\ client
    /\ unit \in UnitInputs
    /\ parallel = NoParallel
    /\ chunker = NoChunker
    /\ tempdir = NoTempDir

\* DocumentParser(max_tokens_per_chunk).split_into_chunks(text)
Split ==
    /\ unit.op = "split_into_chunks"
    /\ ~unit.done
    /\ unit' = [unit EXCEPT
            !.done = TRUE,
            !.output = SplitIntoChunks(unit.input.text, unit.input.max_tokens)]
    /\ UNCHANGED <<service, hash_seed, embedding_model, index_dimension, metadata,
                   retrieved, parallel, chunker, tempdir>>

\* EmbeddingServiceVercel.get_embeddings(texts)
Embed ==
    /\ unit.op = "get_embeddings"
    /\ ~unit.done
    /\ unit' = [unit EXCEPT !.done = TRUE, !.output = GetEmbeddings(unit.input)]
    /\ UNCHANGED <<service, hash_seed, embedding_model, index_dimension, metadata,
                   retrieved, parallel, chunker, tempdir>>

\* GroqService(client).parse_query(query), the LLM answering with llm
Parse ==
    /\ unit.op = "parse_query"
    /\ ~unit.done
    /\ unit' = [unit EXCEPT
            !.done = TRUE,
            !.output = ParseQuery(unit.input.client, unit.input.llm, unit.input.query)]
    /\ UNCHANGED <<service, hash_seed, embedding_model, index_dimension, metadata,
                   retrieved, parallel, chunker, tempdir>>

\* GroqService._fallback_evaluate_clause(query, clause)
Evaluate ==
    /\ unit.op = "_fallback_evaluate_clause"
    /\ ~unit.done
    /\ unit' = [unit EXCEPT
            !.done = TRUE,
            !.output = FallbackEvaluateClause(unit.input.query, unit.input.clause)]
    /\ UNCHANGED <<service, hash_seed, embedding_model, index_dimension, metadata,
                   retrieved, parallel, chunker, tempdir>>

\* GroqService._fallback_generate_answer(query, relevant_texts)
Generate ==
    /\ unit.op = "_fallback_generate_answer"
    /\ ~unit.done
    /\ unit' = [unit EXCEPT
            !.done = TRUE,
            !.output = FallbackGenerateAnswer(unit.input.query, unit.input.relevant_texts)]
    /\ UNCHANGED <<service, hash_seed, embedding_model, index_dimension, metadata,
                   retrieved, parallel, chunker, tempdir>>

UnitNext ==
    \/ Split
    \/ Embed
    \/ Parse
    \/ Evaluate
    \/ Generate

UnitSpec == UnitInit /\ [][UnitNext]_vars

\* ------------------------------------------------------------------
\* parallel_process(func, items, max_concurrent) (utils.py): one task per
\* item, each holding the semaphore while it awaits func(item)
\* ------------------------------------------------------------------

\* the most items of a call, the largest max_concurrent, and what an
\* invocation of func may return
MaxItems == 3

MaxConcurrent == 2

Results == {"r", "s"}

\* asyncio.gather(*tasks): the list it returns, results being the value of
\* each task and completed the tasks in the order they ended
GatherAsCompleted(results, completed) == [k \in DOMAIN completed |-> results[completed[k]]]

Gather(results, completed) == [i \in DOMAIN results |-> results[i]]

\* semaphore = asyncio.Semaphore(max_concurrent) and the tasks as they are
\* made, none started
ParallelInit ==
    /\ InitWith({Dimension}, {Surrogate})
    /\ pc
    /\ client
    /\ unit = NoUnit
    /\ chunker = NoChunker
    /\ tempdir = NoTempDir
    /\ \E n \in 0..MaxItems : \E max_concurrent \in 1..MaxConcurrent :
        parallel = [items |-> n,
                    max_concurrent |-> max_concurrent,
                    semaphore |-> max_concurrent,
                    task |-> [i \in 1..n |-> "pending"],
                    invoked |-> [i \in 1..n |-> 0],
                    results |-> [i \in 1..n |-> "none"],
                    completed |-> <<>>,
                    ended |-> FALSE,
                    outcome |-> Returned(<<>>)]

ParallelUnchanged ==
    UNCHANGED <<service, hash_seed, embedding_model, index_dimension, metadata,
                retrieved, unit, chunker, tempdir>>

\* process_item(item) enters "async with semaphore" and invokes func(item)
Acquire ==
    /\ \E i \in DOMAIN parallel.task :
        /\ parallel.task[i] = "pending"
        /\ parallel.semaphore > 0
        /\ parallel' = [parallel EXCEPT
                !.semaphore = @ - 1,
                !.task[i] = "running",
                !.invoked[i] = @ + 1]
    /\ ParallelUnchanged

\* func(item) returns, and process_item leaves the semaphore
Complete ==
    /\ \E i \in DOMAIN parallel.task : \E result \in Results :
        /\ parallel.task[i] = "running"
        /\ parallel' = [parallel EXCEPT
                !.semaphore = @ + 1,
                !.task[i] = "done",
                !.results[i] = result,
                !.completed = Append(@, i)]
    /\ ParallelUnchanged

\* func(item) raises: process_item leaves the semaphore, and gather raises
\* the first exception of its tasks to the caller
Fail ==
    /\ \E i \in DOMAIN parallel.task :
        /\ parallel.task[i] = "running"
        /\ parallel' = [parallel EXCEPT
                !.semaphore = @ + 1,
                !.task[i] = "raised",
                !.ended = TRUE,
                !.outcome = IF parallel.ended THEN @ ELSE Raised]
    /\ ParallelUnchanged

\* every task has ended with a value: gather returns
Return ==
    /\ ~parallel.ended
    /\ \A i \in DOMAIN parallel.task : parallel.task[i] = "done"
    /\ parallel' = [parallel EXCEPT
            !.ended = TRUE,
            !.outcome = Returned(Gather(parallel.results, parallel.completed))]
    /\ ParallelUnchanged

ParallelNext ==
    \/ Acquire
    \/ Complete
    \/ Fail
    \/ Return

ParallelSpec == ParallelInit /\ [][ParallelNext]_vars

\* ------------------------------------------------------------------
\* chunk_text(text, chunk_size, overlap) (preprocessing/pipeline.py), one
\* step for every turn of its loop
\* ------------------------------------------------------------------

\* the most words of a text, the words it is made of, and the largest
\* chunk_size
MaxWords == 4

TextWords == {<<"a">>, <<"b","c">>}

MaxChunkSize == 3

ChunkTexts ==
    {Join(<<" ">>, words) : words \in UNION {[1..n -> TextWords] : n \in 0..MaxWords}}
        \cup {<<" ", "\n">>}

\* i += chunk_size, the words of the overlap skipped
AdvanceByChunk(i, chunk_size, overlap) == i + chunk_size

\* i += chunk_size - overlap
Advance(i, chunk_size, overlap) == i + chunk_size - overlap

\* words[i:i+chunk_size]
Window(words, i, chunk_size) == SubSeq(words, i + 1, Min(i + chunk_size, Len(words)))

\* words = text.split(); chunks = []; i = 0
ChunkInit ==
    /\ InitWith({Dimension}, {Surrogate})
    /\ pc
    /\ client
    /\ unit = NoUnit
    /\ parallel = NoParallel
    /\ tempdir = NoTempDir
    /\ \E text \in ChunkTexts : \E chunk_size \in 1..MaxChunkSize :
        \E overlap \in 0..(chunk_size - 1) :
            chunker = [text |-> text,
                       chunk_size |-> chunk_size,
                       overlap |-> overlap,
                       words |-> SplitWS(text),
                       chunks |-> <<>>,
                       i |-> 0,
                       returned |-> FALSE]

ChunkUnchanged ==
    UNCHANGED <<service, hash_seed, embedding_model, index_dimension, metadata,
                retrieved, unit, parallel, tempdir>>

\* one turn of "while i < len(words)"
ChunkAppend ==
    /\ chunker.chunk_size > 0
    /\ ~chunker.returned
    /\ chunker.i < Len(chunker.words)
    /\ chunker' = [chunker EXCEPT
            !.chunks = Append(@, Join(<<" ">>,
                            Window(chunker.words, chunker.i, chunker.chunk_size))),
            !.i = Advance(@, chunker.chunk_size, chunker.overlap)]
    /\ ChunkUnchanged

\* the loop ends: return chunks
ChunkReturn ==
    /\ chunker.chunk_size > 0
    /\ ~chunker.returned
    /\ chunker.i >= Len(chunker.words)
    /\ chunker' = [chunker EXCEPT !.returned = TRUE]
    /\ ChunkUnchanged

ChunkNext ==
    \/ ChunkAppend
    \/ ChunkReturn

\* the interpreter keeps running the loop
ChunkSpec == ChunkInit /\ [][ChunkNext]_vars /\ WF_vars(ChunkNext)

\* ------------------------------------------------------------------
\* DocumentParser.process_document_from_url (document_parser.py), step by
\* step, with the directory of the temporary files
\* ------------------------------------------------------------------

\* the names a temporary file may get
MaxTempNames == 3

TempNames == 1..MaxTempNames

\* content = await self.download_document(url) is about to run; the
\* directory may hold the temporary files of others
TempInit ==
    /\ InitWith({Dimension}, {Surrogate})
    /\ pc
    /\ client
    /\ unit = NoUnit
    /\ parallel = NoParallel
    /\ chunker = NoChunker
    /\ \E url \in Urls : \E net \in BOOLEAN :
        \E files \in {names \in SUBSET TempNames : names # TempNames} :
            tempdir = [at |-> "download",
                       url |-> url,
                       net |-> net,
                       before |-> files,
                       files |-> files,
                       tmp_path |-> 0,
                       created |-> 0,
                       content |-> <<>>,
                       outcome |-> Raised]

TempUnchanged ==
    UNCHANGED <<service, hash_seed, embedding_model, index_dimension, metadata,
                retrieved, unit, parallel, chunker>>

\* content = await self.download_document(url): an exception leaves the call
TempDownload ==
    /\ tempdir.at = "download"
    /\ LET content == DownloadDocument(tempdir.url, tempdir.net)
       IN  tempdir' = IF content.exc
                      THEN [tempdir EXCEPT !.at = "raised"]
                      ELSE [tempdir EXCEPT !.at = "tempfile", !.content = content.val]
    /\ TempUnchanged

\* with tempfile.NamedTemporaryFile(delete=False, suffix=...) as tmp:
\* a file of a new name is made and the content written to it
TempCreate ==
    /\ tempdir.at = "tempfile"
    /\ \E name \in TempNames \ tempdir.files :
        tempdir' = [tempdir EXCEPT
            !.at = "try",
            !.files = @ \cup {name},
            !.tmp_path = name,
            !.created = @ + 1]
    /\ TempUnchanged

\* what the body of the try statement comes to: the chunks with their
\* metadata, or the exception of the parser
TryBody(url) == ProcessDocumentFromUrl(url, TRUE)

\* the body of the try statement with no finally clause: an exception leaves
\* the call at once
TempParseUnprotected ==
    /\ tempdir.at = "try"
    /\ tempdir' = [tempdir EXCEPT
            !.at = IF TryBody(tempdir.url).exc THEN "raised" ELSE "finally",
            !.outcome = TryBody(tempdir.url)]
    /\ TempUnchanged

\* the body of the try statement: parse, split, build the metadata; the
\* finally clause runs whether it returns or raises
TempParse ==
    /\ tempdir.at = "try"
    /\ tempdir' = [tempdir EXCEPT !.at = "finally", !.outcome = TryBody(tempdir.url)]
    /\ TempUnchanged

\* finally: if os.path.exists(tmp_path): os.remove(tmp_path); then the call
\* returns or raises what the body did
TempFinally ==
    /\ tempdir.at = "finally"
    /\ tempdir' = [tempdir EXCEPT
            !.at = IF tempdir.outcome.exc THEN "raised" ELSE "returned",
            !.files = IF tempdir.tmp_path \in @ THEN @ \ {tempdir.tmp_path} ELSE @]
    /\ TempUnchanged

TempNext ==
    \/ TempDownload
    \/ TempCreate
    \/ TempParse
    \/ TempFinally

TempSpec == TempInit /\ [][TempNext]_vars

(***************************************************************************)
(* Properties of the service                                               *)
(***************************************************************************)
GroqOperations == {"parse_query", "evaluate_clause", "generate_detailed_answer"}

BackendOperations == {"index_documents", "search_similar", "clear_index", "get_index_stats"}

ErrorStatuses == {BadRequest, Unauthorized, ServerError}

\* the request was a hackrx_run request and was answered with 200
HackrxSucceeded ==
    request.endpoint = "hackrx" /\ at = "done" /\ response.status = HttpSuccess

\* C1: a hackrx_run request answered with 200 returns one answer per
\* question, and the i-th answer is the answer that was computed for the i-th
\* question, whichever path produced it
C1_AnswersInOrder ==
    HackrxSucceeded =>
        /\ Len(response.body.answers) = Len(request.questions)
        /\ Len(computed) = Len(request.questions)
        /\ \A i \in 1..Len(request.questions) :
            /\ computed[i].question = request.questions[i]
            /\ response.body.answers[i] = computed[i].answer

\* two different questions were answered, one by the fixed sentence and the
\* other by generate_detailed_answer, with different answers
C1_Witness ==
    /\ HackrxSucceeded
    /\ Len(request.questions) = 2
    /\ request.questions[1] # request.questions[2]
    /\ computed[1].generated # computed[2].generated
    /\ response.body.answers[1] # response.body.answers[2]

\* the request carries a token other than the expected key to a protected
\* endpoint
BadToken(req) == req.endpoint \in Protected /\ req.api_key # ExpectedKey

\* C2: a request to a protected endpoint with a wrong token is answered with
\* 401 in the step it arrives in, that step leaves the index and the monitor
\* as they were and makes no call, and no step of the request follows
C2_Unauthorized ==
    [][/\ ~BadToken(request)
       /\ BadToken(request') =>
            /\ at' = "done"
            /\ response' = HttpError(Unauthorized, InvalidApiKey)
            /\ calls' = NoCalls
            /\ webhook' = NoWebhook
            /\ last' = NoOperation
            /\ computed' = <<>>
            /\ UNCHANGED <<index, request_times, request_count>>]_vars

\* a hackrx_run request with a wrong token was refused while the index held
\* records
C2_Witness ==
    /\ request.endpoint = "hackrx"
    /\ request.api_key # ExpectedKey
    /\ response.status = Unauthorized
    /\ index # EmptyIndex

\* C3: when index_documents fails in hackrx_run the request ends with 500, no
\* question is processed (no parse_query, search_similar or
\* generate_detailed_answer call) and no webhook task is created
C3_IndexingFailure ==
    (request.endpoint = "hackrx" /\ calls.index_failed > 0) =>
        /\ at = "done"
        /\ response.status = ServerError
        /\ calls.parse_query = 0
        /\ calls.search = 0
        /\ calls.generate = 0
        /\ calls.llm = 0
        /\ calls.webhook = 0
        /\ webhook = NoWebhook
        /\ computed = <<>>

\* index_documents returned false because the backend raised, and hackrx_run
\* answered 500
C3_Witness ==
    /\ request.endpoint = "hackrx"
    /\ request.questions # <<>>
    /\ pc
    /\ last.op = "index_documents"
    /\ last.cause = "raised"
    /\ last.result = Returned(FALSE)
    /\ response = HttpError(ServerError, FailedToIndex)

\* C4: hackrx_run downloads and parses its document at most once, and unless
\* that produced a chunk it ends with 400 or 500 (400 when the document parsed
\* to no chunks) and makes no indexing, search, LLM or webhook call
C4_NoChunks ==
    (request.endpoint = "hackrx" /\ calls.download > 0) =>
        /\ calls.download = 1
        /\ calls.parse <= 1
        /\ calls.chunks = 0 =>
            /\ at = "done"
            /\ response.status \in {BadRequest, ServerError}
            /\ ProcessDocumentFromUrl(request.documents, calls.parse = 1) = Returned(<<>>)
                    => response.status = BadRequest
            /\ calls.index = 0
            /\ calls.parse_query = 0
            /\ calls.search = 0
            /\ calls.generate = 0
            /\ calls.llm = 0
            /\ calls.webhook = 0
            /\ webhook = NoWebhook

\* a document of blank lines was downloaded and parsed once, and hackrx_run
\* answered 400
C4_Witness ==
    /\ request.endpoint = "hackrx"
    /\ request.documents = UrlBlank
    /\ calls.download = 1
    /\ calls.parse = 1
    /\ calls.chunks = 0
    /\ response = HttpError(BadRequest, FailedToProcess)

\* C5: parse_query, evaluate_clause and generate_detailed_answer return and
\* never raise, and when there is no client, the call raises or (for the two
\* JSON operations) the reply is not JSON, they return the value of their
\* fallback for the same arguments
C5_Fallbacks ==
    last.op \in GroqOperations =>
        /\ ~last.result.exc
        /\ last.cause # "none" =>
            last.result.val =
                CASE last.op = "parse_query" -> FallbackParseQuery(last.query)
                  [] last.op = "evaluate_clause" ->
                        FallbackEvaluateClause(last.query, last.arg)
                  [] last.op = "generate_detailed_answer" ->
                        FallbackGenerateAnswer(last.query, last.arg)

\* evaluate_clause got a reply that is not JSON and returned its fallback
C5_Witness ==
    /\ last.op = "evaluate_clause"
    /\ last.cause = "unparseable"
    /\ ~last.result.exc
    /\ last.result.val = FallbackEvaluateClause(last.query, last.arg)

\* C6: a hackrx_run or process_single_query request that ended at a
\* GroqService operation ended with 200, whatever the LLM did
C6_NoErrorFromLLM ==
    (/\ request.endpoint \in {"hackrx", "single"}
     /\ at = "done"
     /\ last.op \in GroqOperations)
        => response.status = HttpSuccess

\* C7: when the vector backend is unavailable (no client, or the call to it
\* raises) no operation raises: index_documents and clear_index return false,
\* search_similar returns an empty list and get_index_stats returns a
\* mapping that holds an error and no statistics
C7_BackendUnavailable ==
    (last.op \in BackendOperations /\ last.cause # "none") =>
        /\ ~last.result.exc
        /\ last.op \in {"index_documents", "clear_index"} => last.result.val = FALSE
        /\ last.op = "search_similar" => last.result.val = <<>>
        /\ last.op = "get_index_stats" =>
            /\ last.result.val.t = "dict"
            /\ DOMAIN last.result.val.v = {"error"}

\* the backend raised during a search of an index that holds records, and
\* search_similar returned an empty list
C7_Witness ==
    /\ last.op = "search_similar"
    /\ last.cause = "raised"
    /\ index # EmptyIndex
    /\ last.result = Returned(<<>>)

\* C8: in hackrx_run every question whose search found nothing is answered by
\* the fixed sentence without a call of generate_detailed_answer, and the
\* request goes on to its other questions and ends with 200
C8_NoResults ==
    request.endpoint = "hackrx" =>
        /\ \A i \in DOMAIN computed :
            computed[i].found = 0 =>
                /\ computed[i].answer = NoInfoInDocument
                /\ ~computed[i].generated
        /\ calls.generate = Cardinality({i \in DOMAIN computed : computed[i].generated})
        /\ (at = "done" /\ computed # <<>>) =>
            /\ response.status = HttpSuccess
            /\ Len(computed) = Len(request.questions)

\* the search of the first question found nothing and the second question
\* was answered from the clauses its search found
C8_Witness ==
    /\ HackrxSucceeded
    /\ Len(computed) = 2
    /\ computed[1].found = 0
    /\ computed[1].answer = NoInfoInDocument
    /\ computed[2].found > 0
    /\ calls.generate = 1

\* C9: once the webhook task exists, hackrx_run has returned 200 with the
\* answers the task was given, and the response stays so whether the task has
\* run or not and whatever its POST ended with
C9_FireAndForget ==
    webhook.state # "none" =>
        /\ request.endpoint = "hackrx"
        /\ at = "done"
        /\ response = [status |-> HttpSuccess, body |-> [answers |-> webhook.results]]

\* the POST of the webhook task failed and the response is still the 200
C9_Witness ==
    /\ webhook.state = "finished"
    /\ ~webhook.returned
    /\ webhook.results # <<>>
    /\ response = [status |-> HttpSuccess, body |-> [answers |-> webhook.results]]

\* C10: a request makes at most one webhook POST, makes it only once all its
\* questions are answered, makes none when it ends with 400, 401 or 500, and
\* makes no second one after a failed one
C10_AtMostOnce ==
    /\ calls.webhook <= 1
    /\ calls.webhook = 1 <=> webhook.state = "finished"
    /\ webhook.state # "none" =>
        /\ Len(computed) = Len(request.questions)
        /\ webhook.results = [i \in 1..Len(computed) |-> computed[i].answer]
    /\ response.status \in ErrorStatuses =>
        /\ webhook = NoWebhook
        /\ calls.webhook = 0
    /\ (webhook.state = "finished" /\ ~webhook.returned) => ~ENABLED RunWebhook

\* the one POST of a request failed and the task has ended
C10_Witness ==
    /\ calls.webhook = 1
    /\ webhook.state = "finished"
    /\ ~webhook.returned
    /\ Len(request.questions) = MaxQuestions

\* C11: index_documents is idempotent: every run in a behaviour indexes the
\* chunks of the same document, so whatever runs were made (by a retry, a
\* repeated request or a restarted server) the index holds no more records
\* than the document has chunks, one per ordinal
C11_Idempotent ==
    \A document_chunks \in OtherDocuments :
        /\ Cardinality(DOMAIN index) <= Len(document_chunks)
        /\ \A a, b \in DOMAIN index : a[1] = b[1] => a = b

\* C12: a search of the local index with top_k = k over n entries returns
\* without raising, and returns at most min(k, n) results
C12_AtMostMin ==
    retrieved.top_k > 0 =>
        /\ ~retrieved.results.exc
        /\ Len(retrieved.results.val) <= Min(retrieved.top_k, retrieved.ntotal)

\* C13: the start of the service creates "hackrx-index" only when there is
\* none, and it does not bring up the Pinecone client on an index whose
\* dimension is not the embedder's
C13_EnsureExists ==
    [][/\ index_dimension # 0 => index_dimension' = index_dimension
       /\ (~pc /\ pc') => index_dimension' \in {0, Dimension}]_vars

C15_SingleIndexingFailure ==
    (request.endpoint = "single" /\ calls.index_failed > 0) =>
        /\ at = "done" => response.status \in ErrorStatuses
        /\ calls.search = 0
        /\ calls.evaluate = 0

\* the value is a ClauseEvaluation: a mapping with the fields answer,
\* direct_answer, explanation and confidence, whose answer is "yes" or "no"
\* and whose confidence is a number of [0, 1]
IsClauseEvaluation(value) ==
    /\ value.t = "dict"
    /\ {"answer", "direct_answer", "explanation", "confidence"} \subseteq DOMAIN value.v
    /\ value.v.answer \in {PyStr(Yes), PyStr(No)}
    /\ value.v.confidence.t = "float"
    /\ 0 <= value.v.confidence.v[1]
    /\ value.v.confidence.v[1] <= value.v.confidence.v[2]

\* C16: whatever the LLM replied, what evaluate_clause returns is a
\* ClauseEvaluation
C16_ClauseEvaluation ==
    last.op = "evaluate_clause" =>
        /\ ~last.result.exc
        /\ IsClauseEvaluation(last.result.val)

\* the token estimate of a chunk: the sum of count_tokens over its paragraphs
RECURSIVE TokenEstimate(_)
TokenEstimate(paragraphs) ==
    IF paragraphs = <<>> THEN 0
    ELSE CountTokens(Head(paragraphs)) + TokenEstimate(Tail(paragraphs))

\* the sequences of a sequence, one after the other
RECURSIVE Flatten(_)
Flatten(lists) ==
    IF lists = <<>> THEN <<>> ELSE Head(lists) \o Flatten(Tail(lists))

\* split_into_chunks has been called by itself and has returned
SplitDone == unit.op = "split_into_chunks" /\ unit.done

\* C17: the token estimate of every chunk split_into_chunks returns is at
\* most max_tokens_per_chunk, unless the chunk is one paragraph that is over
\* the limit by itself; a paragraph over the limit shares its chunk with no
\* other paragraph
C17_ChunkLimit ==
    SplitDone =>
        \A k \in DOMAIN unit.output :
            LET paragraphs == SplitOn(unit.output[k], "\n")
            IN  /\ \/ TokenEstimate(paragraphs) <= unit.input.max_tokens
                   \/ /\ Len(paragraphs) = 1
                      /\ CountTokens(paragraphs[1]) > unit.input.max_tokens
                /\ \A i \in DOMAIN paragraphs :
                        CountTokens(paragraphs[i]) > unit.input.max_tokens
                            => Len(paragraphs) = 1

\* a paragraph over the limit became a chunk of its own, beside another chunk
C17_Witness ==
    /\ SplitDone
    /\ Len(unit.output) >= 2
    /\ \E k \in DOMAIN unit.output :
            /\ CountTokens(unit.output[k]) > unit.input.max_tokens
            /\ Len(SplitOn(unit.output[k], "\n")) = 1

\* C18: the paragraphs of the chunks, chunk after chunk, are the lines of the
\* text that are not blank, stripped and in their order, and no chunk is
\* empty
C18_ParagraphsKept ==
    SplitDone =>
        /\ Flatten([k \in DOMAIN unit.output |-> SplitOn(unit.output[k], "\n")])
                = Paragraphs(unit.input.text)
        /\ \A k \in DOMAIN unit.output : unit.output[k] # <<>>

\* a text with a blank line or a padded line was split into two chunks, the
\* first of two paragraphs
C18_Witness ==
    /\ SplitDone
    /\ Len(unit.output) = 2
    /\ Len(SplitOn(unit.output[1], "\n")) = 2
    /\ Len(SplitOn(unit.input.text, "\n")) > 3

\* get_embeddings has been called by itself and has returned
EmbedDone == unit.op = "get_embeddings" /\ unit.done

\* the vectors are one per text, of 128 components of [0, 1] each, and the
\* vector of a text is the one a call on that text alone returns
OneVectorPerText(texts, embeddings) ==
    /\ Len(embeddings) = Len(texts)
    /\ \A i \in DOMAIN embeddings :
        /\ Len(embeddings[i]) = Dimension
        /\ \A k \in DOMAIN embeddings[i] :
            /\ embeddings[i][k].t = "float"
            /\ 0 <= embeddings[i][k].v[1]
            /\ embeddings[i][k].v[1] <= embeddings[i][k].v[2]
        /\ <<embeddings[i]>> = GetEmbeddings(<<texts[i]>>)

\* C19 as stated: for every list of texts get_embeddings returns one vector
\* per text in the order of the texts, of 128 components of [0, 1] each, and
\* a text has the same vector wherever it stands and whatever the other
\* texts are
C19_OneVectorPerText ==
    EmbedDone => OneVectorPerText(unit.input, unit.output)

\* C19: that holds of the lists whose texts all encode as UTF-8; if a text of
\* the list does not, get_embeddings returns the empty list
C19_PureOnEncodable ==
    EmbedDone =>
        IF \A i \in DOMAIN unit.input : Encodable(unit.input[i])
        THEN OneVectorPerText(unit.input, unit.output)
        ELSE unit.output = <<>>

\* three texts were embedded, the first and the last the same and the
\* second another
C19_Witness ==
    /\ EmbedDone
    /\ Len(unit.input) = 3
    /\ Len(unit.output) = 3
    /\ unit.input[1] = unit.input[3]
    /\ unit.input[1] # unit.input[2]
    /\ unit.output[1] = unit.output[3]
    /\ unit.output[1] # unit.output[2]

\* parse_query has been called by itself and has returned the value of its
\* fallback: there is no client, the call raised or the reply is not JSON
ParsedByFallback ==
    /\ unit.op = "parse_query"
    /\ unit.done
    /\ \/ ~unit.input.client
       \/ unit.input.llm.raised
       \/ ~JsonLoads(Strip(unit.input.llm.content)).ok

\* the word occurs in the query, whatever the case of the query's letters
Occurs(word) == Contains(Lower(unit.input.query), word)

\* the intent of the query by the priority of the groups
PriorityIntent ==
    IF Occurs(<<"g","r","a","c","e">>) \/ Occurs(<<"w","a","i","t","i","n","g">>)
    THEN <<"f","i","n","d","_","p","e","r","i","o","d">>
    ELSE IF Occurs(<<"p","r","e","m","i","u","m">>) \/ Occurs(<<"p","a","y","m","e","n","t">>)
    THEN <<"f","i","n","d","_","p","a","y","m","e","n","t","_","i","n","f","o">>
    ELSE IF Occurs(<<"c","o","v","e","r","a","g","e">>) \/ Occurs(<<"b","e","n","e","f","i","t">>)
    THEN <<"f","i","n","d","_","c","o","v","e","r","a","g","e">>
    ELSE IF Occurs(<<"c","l","a","i","m">>) \/ Occurs(<<"n","c","d">>)
    THEN <<"f","i","n","d","_","c","l","a","i","m","_","i","n","f","o">>
    ELSE <<"g","e","n","e","r","a","l","_","q","u","e","r","y">>

Keywords == {Vocabulary[i].keyword : i \in DOMAIN Vocabulary}

\* the parse has the intent of the priority and no condition, and for the
\* example query the intent find_period with the entities "grace period" and
\* "premium"
IntentByPriority ==
    /\ ~unit.output.exc
    /\ unit.output.val.t = "dict"
    /\ unit.output.val.v.intent = PyStr(PriorityIntent)
    /\ unit.output.val.v.conditions = PyList(<<>>)
    /\ unit.input.query = ExampleQuery =>
        /\ unit.output.val.v.intent = PyStr(<<"f","i","n","d","_","p","e","r","i","o","d">>)
        /\ {PyStr(<<"g","r","a","c","e"," ","p","e","r","i","o","d">>), PyStr(<<"p","r","e","m","i","u","m">>)}
                \subseteq Range(unit.output.val.v.entities.v)

\* C20 as stated: in fallback mode parse_query chooses the intent by the
\* priority find_period, find_payment_info, find_coverage, find_claim_info,
\* general_query, conditions is empty, and the entities are exactly the
\* keywords of the vocabulary that occur in the question, whatever its case
C20_EntitiesOccur ==
    ParsedByFallback =>
        /\ IntentByPriority
        /\ Range(unit.output.val.v.entities.v)
                = {PyStr(keyword) : keyword \in {k \in Keywords : Occurs(k)}}

\* C20: the intent and the conditions are as stated, and the entities are the
\* keywords of the vocabulary that occur in the question, with "ncd" also
\* when "no claim discount" occurs, each once
C20_FallbackParse ==
    ParsedByFallback =>
        /\ IntentByPriority
        /\ Range(unit.output.val.v.entities.v)
                = {PyStr(keyword) : keyword \in
                    {k \in Keywords :
                        \/ Occurs(k)
                        \/ k = <<"n","c","d">> /\ Occurs(<<"n","o"," ","c","l","a","i","m"," ","d","i","s","c","o","u","n","t">>)}}
        /\ Len(unit.output.val.v.entities.v)
                = Cardinality(Range(unit.output.val.v.entities.v))

\* a question in capitals about the premium and the NCD, parsed with no
\* client, got the intent of the payment group
C20_Witness ==
    /\ ParsedByFallback
    /\ ~unit.input.client
    /\ Occurs(<<"p","r","e","m","i","u","m">>)
    /\ Occurs(<<"n","c","d">>)
    /\ ~Contains(unit.input.query, <<"p","r","e","m","i","u","m">>)
    /\ unit.output.val.v.intent = PyStr(<<"f","i","n","d","_","p","a","y","m","e","n","t","_","i","n","f","o">>)
    /\ PyStr(<<"n","c","d">>) \in Range(unit.output.val.v.entities.v)

\* _fallback_evaluate_clause has been called by itself and has returned
EvaluateDone == unit.op = "_fallback_evaluate_clause" /\ unit.done

\* the distinct words of a text, in lower case
LowerWords(text) == {Lower(word) : word \in Range(SplitWS(text))}

\* C21: the confidence of the fallback evaluation is the number of distinct
\* lower-case words of the question that are words of the clause in lower
\* case, over the number of distinct words of the question, and 0 for a
\* question of no word; the answer is "yes" exactly when that is more than
\* 0.3, and with the answer "no" the direct answer is the fixed string; the
\* example question and clause get 3/4 and "yes"
C21_Confidence ==
    EvaluateDone =>
        LET question_words == LowerWords(unit.input.query)
            shared == question_words \cap LowerWords(unit.input.clause)
            confidence == unit.output.v.confidence.v
            above == 10 * Cardinality(shared) > 3 * Cardinality(question_words)
        IN  /\ unit.output.v.confidence.t = "float"
            /\ confidence[2] > 0
            /\ IF question_words = {} THEN confidence[1] = 0
               ELSE confidence[1] * Cardinality(question_words)
                        = Cardinality(shared) * confidence[2]
            /\ unit.output.v.answer = PyStr(IF above THEN Yes ELSE No)
            /\ ~above => unit.output.v.direct_answer = PyStr(NoRelevantInfo)
            /\ (unit.input.query = ExampleQuestion /\ unit.input.clause = ExampleClause)
                    => /\ 4 * confidence[1] = 3 * confidence[2]
                       /\ unit.output.v.answer = PyStr(Yes)

\* a question that repeats a word, and has a word in capitals, was
\* evaluated against a clause that has one of its two distinct words
C21_Witness ==
    /\ EvaluateDone
    /\ Len(SplitWS(unit.input.query)) = 4
    /\ Cardinality(LowerWords(unit.input.query)) = 2
    /\ Range(SplitWS(unit.input.query)) # LowerWords(unit.input.query)
    /\ Cardinality(LowerWords(unit.input.query) \cap LowerWords(unit.input.clause)) = 1
    /\ unit.output.v.answer = PyStr(Yes)

\* a call of parallel_process is being made
InParallel == parallel.items > 0

\* C22: at every moment at most max_concurrent invocations of func are in
\* flight and no item has had more than one; when parallel_process returns,
\* func has been invoked once for every item and the list returned holds the
\* result of the i-th item at place i, in whatever order the invocations
\* ended
C22_ParallelProcess ==
    InParallel =>
        /\ Cardinality({i \in DOMAIN parallel.task : parallel.task[i] = "running"})
                <= parallel.max_concurrent
        /\ \A i \in DOMAIN parallel.invoked : parallel.invoked[i] <= 1
        /\ (parallel.ended /\ ~parallel.outcome.exc) =>
            /\ \A i \in DOMAIN parallel.invoked : parallel.invoked[i] = 1
            /\ Len(parallel.outcome.val) = parallel.items
            /\ \A i \in 1..parallel.items :
                    parallel.outcome.val[i] = parallel.results[i]

\* three items on a semaphore of two: the third invocation ended first, with
\* another result than the first, and parallel_process returned
C22_Witness ==
    /\ parallel.items = 3
    /\ parallel.max_concurrent = 2
    /\ parallel.ended
    /\ ~parallel.outcome.exc
    /\ parallel.completed[1] = 3
    /\ parallel.results[1] # parallel.results[3]

\* the body of the response holds the text of an exception the vector backend
\* raised
ExceptionTextInBody ==
    IF response.status # HttpSuccess
    THEN Contains(response.body.detail, BackendErrorText)
    ELSE CASE request.endpoint = "hackrx" ->
                \E i \in DOMAIN response.body.answers :
                    Contains(response.body.answers[i], BackendErrorText)
           [] request.endpoint = "single" ->
                \/ Contains(response.body.answer, BackendErrorText)
                \/ Contains(response.body.explanation, BackendErrorText)
           [] request.endpoint = "clear" ->
                Contains(response.body.message, BackendErrorText)
           [] request.endpoint = "stats" ->
                \E key \in DOMAIN response.body.index_stats.v :
                    /\ response.body.index_stats.v[key].t = "str"
                    /\ Contains(response.body.index_stats.v[key].v, BackendErrorText)

\* C23: whatever backend call failed while it was served, the response of an
\* endpoint does not hold the text of the exception
C23_NoExceptionText ==
    at = "done" => ~ExceptionTextInBody

\* C24: a request to /process-single with the valid token and a body of the
\* fields the test client sends, for a document that can be processed, is
\* accepted by the endpoint and answered with 200
C24_TestClientAccepted ==
    (/\ request.endpoint = "single"
     /\ request.api_key = ExpectedKey
     /\ request.json = TestSingleQuery
     /\ request.documents = UrlPolicy
     /\ at # "idle") =>
        /\ ~ValidateBody(request.endpoint, request.json).exc
        /\ at = "done" => response.status = HttpSuccess

\* C25: in a hackrx_run request index_documents is called at most once and
\* the call that succeeds writes a record for every chunk of the document;
\* no question is parsed or searched before that call has succeeded; the
\* questions are taken in their order, and the parse and the search of a
\* question come only when the answers of all the questions before it are
\* recorded
C25_CallOrder ==
    [][request'.endpoint = "hackrx" =>
        /\ calls'.index <= 1
        /\ (calls'.index > calls.index /\ calls'.index_failed = calls.index_failed) =>
                \A k \in DOMAIN locals.document_chunks :
                    RecordId(k - 1, locals.document_chunks[k].text) \in DOMAIN index'
        /\ (calls'.parse_query > 0 \/ calls'.search > 0) =>
                calls'.index = 1 /\ calls'.index_failed = 0
        /\ Len(computed') <= calls'.search
        /\ calls'.search <= calls'.parse_query
        /\ calls'.parse_query <= Len(computed') + 1
        /\ calls'.parse_query > calls.parse_query =>
                calls.parse_query = Len(computed) /\ calls.search = Len(computed)
        /\ \A i \in DOMAIN computed' : computed'[i].question = request'.questions[i]]_vars

\* a document of two chunks was indexed by one call, the first of two
\* different questions is answered and the second is parsed
C25_Witness ==
    /\ request.endpoint = "hackrx"
    /\ Len(request.questions) = 2
    /\ request.questions[1] # request.questions[2]
    /\ Len(locals.document_chunks) >= 2
    /\ calls.index = 1
    /\ Len(computed) = 1
    /\ calls.parse_query = 2

\* _fallback_generate_answer has returned
GenerateDone == unit.op = "_fallback_generate_answer" /\ unit.done

\* the places, among the period-delimited sentences of a text, of those that
\* contain a word of the question, both taken in lower case
Hits(query, text) ==
    LET sentences == SplitOn(text, ".")
    IN  {i \in DOMAIN sentences :
            \E word \in LowerWords(query) : Contains(Lower(sentences[i]), word)}

\* C26: without texts the fallback answer is the fixed sentence; when a
\* period-delimited sentence of the texts joined by a space contains a word
\* of the question, the answer is the first three such sentences at most, in
\* the order of the document, stripped, joined by ". " and ended by one
\* period; otherwise it is the first 500 characters of the joined texts,
\* followed by an ellipsis only when the joined texts are longer
C26_ThreeOutcomes ==
    GenerateDone =>
        LET texts == unit.input.relevant_texts
            combined == Join(<<" ">>, texts)
            sentences == SplitOn(combined, ".")
            hits == Hits(unit.input.query, combined)
            kept == Min(3, Cardinality(hits))
            Nth(k) == CHOOSE i \in hits : Cardinality({j \in hits : j <= i}) = k
        IN  IF texts = <<>> THEN unit.output = NoInfoInDocument
            ELSE IF hits # {}
            THEN unit.output =
                    Join(<<".", " ">>, [k \in 1..kept |-> Strip(sentences[Nth(k)])])
                        \o <<".">>
            ELSE IF Len(combined) > 500
            THEN unit.output = SubSeq(combined, 1, 500) \o <<".", ".", ".">>
            ELSE unit.output = combined

\* two texts with five sentences that contain the word of the question, in
\* capitals in one of them: three were kept
C26_Witness ==
    /\ GenerateDone
    /\ Len(unit.input.relevant_texts) = 2
    /\ Cardinality(Hits(unit.input.query, Join(<<" ">>, unit.input.relevant_texts))) > 3
    /\ Len(SplitOn(unit.output, ".")) = 4
    /\ unit.input.relevant_texts[1] # unit.input.relevant_texts[2]

\* a call of chunk_text is being made
InChunkText == chunker.chunk_size > 0

\* the windows chunk_text has returned, each as its words
Windows == [k \in DOMAIN chunker.chunks |-> SplitWS(chunker.chunks[k])]

\* what chunk_text has returned is as C27 says
ChunksAsClaimed ==
    LET words == SplitWS(chunker.text)
        step == chunker.chunk_size - chunker.overlap
        Start(k) == (k - 1) * step
    IN  /\ \A k \in DOMAIN Windows :
            /\ Len(Windows[k]) \in 1..chunker.chunk_size
            /\ Start(k) + Len(Windows[k]) <= Len(words)
            /\ \A p \in DOMAIN Windows[k] : Windows[k][p] = words[Start(k) + p]
        /\ \A p \in DOMAIN words : \E k \in DOMAIN Windows :
                p - Start(k) \in DOMAIN Windows[k]
        /\ \A k \in DOMAIN Windows : k + 1 \in DOMAIN Windows =>
                Start(k) + Len(Windows[k]) - Start(k + 1) <= chunker.overlap
        /\ words = <<>> => chunker.chunks = <<>>

\* C27: with 0 <= overlap < chunk_size chunk_text returns, and what it
\* returns are windows of at most chunk_size words of the text, the k-th
\* starting (k - 1) * (chunk_size - overlap) words from the first word, such
\* that every word of the text is in a window at its place, two consecutive
\* windows share at most overlap words, and a text of no word gives no window
C27_ChunkText ==
    /\ <>(InChunkText => chunker.returned)
    /\ [](InChunkText /\ chunker.returned => ChunksAsClaimed)

\* a text of four words in windows of three with an overlap of one: two
\* windows, the second of two words
C27_Witness ==
    /\ InChunkText
    /\ chunker.returned
    /\ Len(SplitWS(chunker.text)) = 4
    /\ chunker.chunk_size = 3
    /\ chunker.overlap = 1
    /\ Len(chunker.chunks) = 2
    /\ Len(SplitWS(chunker.chunks[2])) = 2

\* C28: every record of the index carries the URL of a document, and as its
\* text the text of a chunk of that document cut to 1000 characters at most
C28_SourceCarried ==
    \A id \in DOMAIN index :
        /\ Len(index[id].text) <= 1000
        /\ \E url \in Urls :
            /\ index[id].source = url
            /\ ~ProcessDocumentFromUrl(url, TRUE).exc
            /\ \E chunk \in Range(ProcessDocumentFromUrl(url, TRUE).val) :
                    /\ chunk.doc_source = url
                    /\ index[id].text = SubSeq(chunk.text, 1, Min(1000, Len(chunk.text)))

\* C29: the monitor, empty at the start, holds as many samples as requests
\* were counted, up to max_requests; a request answered with an error has
\* left no sample and was not counted
C29_OneSamplePerRequest ==
    /\ Len(request_times) = Min(request_count, max_requests)
    /\ Len(request_times) <= max_requests
    /\ (at = "done" /\ response.status \in ErrorStatuses) =>
            request_times = <<>> /\ request_count = 0

\* a call of process_document_from_url, followed by itself, has returned or
\* raised
TempCallEnded == tempdir.at \in {"returned", "raised"}

====
